---- MODULE Spec2Model ----
(***************************************************************************)
(* A model of dns.c (dreampet/dns): the wire codec operators the transport *)
(* uses, the transport state machine of struct dns_socket, and the         *)
(* resolver state machine of struct dns_resolver.                          *)
(*                                                                         *)
(* A packet is a record [data, end, size, rrs].  data holds the bytes of   *)
(* P->data that have been written (header and question section, byte for   *)
(* byte; data[off] of the C code is data[off + 1] here), end and size are  *)
(* P->end and P->size.  The records that follow the question are kept in   *)
(* parsed form in rrs.  Names are C strings: sequences of character codes. *)
(* data keeps the bytes below end only: the code reads none at or past     *)
(* end, and an evaluation that did would fail on the missing element.      *)
(***************************************************************************)
EXTENDS Integers, Sequences, FiniteSets, TLC

VARIABLES so, net, R, pc, ret, gh, pkt, prm, hist, lib

vars == <<so, net, R, pc, ret, gh, pkt, prm, hist, lib>>

\* the packet, the permutor, the record of the calls made on them, and the
\* reference-counted objects and hosts table of the library
codec == <<pkt, prm, hist, lib>>

\* the socket and the resolver with their network
machines == <<so, net, R, pc, ret, gh>>

(***************************************************************************)
(* Bounds of the model.                                                    *)
(***************************************************************************)
MaxDgrams == 2
MaxFaults == 1
MaxSubmit == 1
MaxTimeouts == 3
MaxResp == 2
MaxSub == 4

(***************************************************************************)
(* Generic helpers.                                                        *)
(***************************************************************************)
Min(a, b) == IF a < b THEN a ELSE b

Max(a, b) == IF a > b THEN a ELSE b

Zeros(n) == <<>> \o [i \in 1..n |-> 0]

NULL == [null |-> TRUE]

\* the element of a singleton: The({e : x \in {v}}) is e for the value v of
\* x, a local of the code that is computed once and read often
The(S) == CHOOSE e \in S : TRUE

\* dst[i] = v of the C code on a buffer kept as the sequence of bytes written so far
Put(dst, i, v) ==
    IF i < Len(dst) THEN [dst EXCEPT ![i + 1] = v]
    ELSE dst \o Zeros(i - Len(dst)) \o <<v>>

\* P->data[off]
Byte(P, off) == P.data[off + 1]

\* the bytes data[from .. from + n - 1] replaced by bs
Patch(data, from, bs) ==
    LET pad == IF Len(data) < from THEN data \o Zeros(from - Len(data)) ELSE data
    IN  SubSeq(pad, 1, from) \o bs \o SubSeq(pad, from + Len(bs) + 1, Len(pad))

(***************************************************************************)
(* C strings.                                                              *)
(***************************************************************************)
tolower(c) == IF c >= 65 /\ c <= 90 THEN c + 32 ELSE c

RECURSIVE strlen(_)
strlen(s) == IF s = <<>> \/ Head(s) = 0 THEN 0 ELSE 1 + strlen(Tail(s))

\* 0 when the two strings are equal up to case, compared up to the first NUL
RECURSIVE strcasecmp(_, _)
strcasecmp(a, b) ==
    LET ca == IF a = <<>> THEN 0 ELSE tolower(Head(a))
        cb == IF b = <<>> THEN 0 ELSE tolower(Head(b))
    IN  IF ca # cb THEN ca - cb
        ELSE IF ca = 0 THEN 0
        ELSE strcasecmp(Tail(a), Tail(b))

(***************************************************************************)
(* struct dns_header (dns.h): the twelve bytes at the head of P->data.     *)
(***************************************************************************)
hdr_qid(P) == Byte(P, 0) * 256 + Byte(P, 1)

hdr_rd(P) == Byte(P, 2) % 2

hdr_tc(P) == (Byte(P, 2) \div 2) % 2

hdr_aa(P) == (Byte(P, 2) \div 4) % 2

hdr_rcode(P) == Byte(P, 3) % 16

set_qid(P, qid) == [P EXCEPT !.data = Patch(P.data, 0, <<qid \div 256, qid % 256>>)]

set_rd(P, rd) ==
    [P EXCEPT !.data = Patch(P.data, 2, <<Byte(P, 2) - hdr_rd(P) + rd>>)]

set_rcode(P, rc) ==
    [P EXCEPT !.data = Patch(P.data, 3, <<Byte(P, 3) - hdr_rcode(P) + rc>>)]

SectionOff(section) ==
    CASE section = "QD" -> 4
      [] section = "AN" -> 6
      [] section = "NS" -> 8
      [] section = "AR" -> 10

dns_p_count(P, section) ==
    IF section \in {"QD", "AN", "NS", "AR"}
    THEN Byte(P, SectionOff(section)) * 256 + Byte(P, SectionOff(section) + 1)
    ELSE IF section = "ALL"
    THEN   Byte(P, 4) * 256 + Byte(P, 5) + Byte(P, 6) * 256 + Byte(P, 7)
         + Byte(P, 8) * 256 + Byte(P, 9) + Byte(P, 10) * 256 + Byte(P, 11)
    ELSE 0

\* dns_header(P)->xxcount = htons(ntohs(dns_header(P)->xxcount) + 1)
inc_count(P, section) ==
    LET n == (dns_p_count(P, section) + 1) % 65536
    IN  [P EXCEPT !.data = Patch(P.data, SectionOff(section), <<n \div 256, n % 256>>)]

(***************************************************************************)
(* Packet routines.                                                        *)
(***************************************************************************)
DNS_T_A == 1
DNS_T_NS == 2
DNS_T_CNAME == 5
DNS_T_MX == 15
DNS_T_SRV == 33
DNS_T_ALL == 255
DNS_C_IN == 1
DNS_RC_SERVFAIL == 2
DNS_D_MAXNAME == 255
DNS_D_MAXPTRS == 127
DNS_SO_MINBUF == 768
DNS_P_QBUFSIZ == 272

\* size here is the capacity of P->data
dns_p_init(size) == [data |-> Zeros(12), end |-> 12, size |-> size, rrs |-> <<>>]

dns_p_copy(P, P0) ==
    LET e == Min(P.size, P0.end)
    IN  [P EXCEPT !.end = e, !.data = Patch(P.data, 0, SubSeq(P0.data, 1, e)),
                  !.rrs = P0.rrs]

(***************************************************************************)
(* Domain name routines.                                                   *)
(***************************************************************************)
RECURSIVE dns_d_skip(_, _)
dns_d_skip(src, P) ==
    IF src >= P.end THEN P.end
    ELSE LET b == Byte(P, src)
             len == b % 64
         IN  CASE b \div 64 = 0 ->
                    IF len = 0 THEN src + 1
                    ELSE IF P.end - (src + 1) > len THEN dns_d_skip(src + 1 + len, P)
                    ELSE P.end
               [] b \div 64 = 3 -> IF P.end - src < 2 THEN P.end ELSE src + 2
               [] OTHER -> P.end

\* what dst holds after a write of the string s into a buffer of lim bytes
Terminated(s, lim) == IF lim = 0 THEN <<>> ELSE SubSeq(s, 1, Min(Len(s), lim - 1))

(* The loop of dns_d_expand().  The walk over the immutable packet is a     *)
(* function of (src, nptrs) alone.  seen is the set of offsets of the      *)
(* labels copied so far: nptrs is 0 after every label, so a label met a    *)
(* second time means the loop repeats for ever, and the result is hang.    *)
(* ptrs is the set of pointers followed since the last label: a pointer    *)
(* met a second time means the chain cycles until nptrs passes             *)
(* DNS_D_MAXPTRS, and the result is that failure.                          *)
RECURSIVE d_expand_loop(_, _, _, _, _, _, _)
d_expand_loop(P, lim, src, dst, nptrs, seen, ptrs) ==
    LET fail == [len |-> 0, dst |-> Terminated(dst, lim), error |-> "DNS_EILLEGAL",
                 hang |-> FALSE]
    IN  IF src >= P.end THEN fail
        ELSE LET b == Byte(P, src)
                 len == b % 64
             IN  CASE b \div 64 = 0 ->
                        IF len = 0
                        THEN LET out == IF dst = <<>> THEN <<46>> ELSE dst
                             IN  [len |-> Len(out), dst |-> Terminated(out, lim),
                                  error |-> "0", hang |-> FALSE]
                        ELSE IF P.end - (src + 1) < len THEN fail
                        ELSE IF src \in seen
                        THEN [len |-> 0, dst |-> <<>>, error |-> "0", hang |-> TRUE]
                        ELSE d_expand_loop(P, lim, src + 1 + len,
                                 dst \o SubSeq(P.data, src + 2, src + 1 + len) \o <<46>>,
                                 0, seen \cup {src}, {})
                   [] b \div 64 = 3 ->
                        IF nptrs + 1 > DNS_D_MAXPTRS \/ src \in ptrs THEN fail
                        ELSE IF P.end - src < 2 THEN fail
                        ELSE d_expand_loop(P, lim, (b % 64) * 256 + Byte(P, src + 1),
                                 dst, nptrs + 1, seen, ptrs \cup {src})
                   [] OTHER -> fail

dns_d_expand(lim, src, P) == d_expand_loop(P, lim, src, <<>>, 0, {}, {})

(* dns_d_comp() for a packet whose dictionary is empty (the first name       *)
(* pushed): the labels of the string, each behind its length byte.           *)
RECURSIVE d_comp_loop(_, _, _, _, _, _)
d_comp_loop(src, dst, dp, dx, sp, sx) ==
    IF sx < Len(src)
    THEN IF src[sx + 1] = 46
         THEN d_comp_loop(src, Put(dst, dp, (sx - sp) % 64), dx, dx + 1, sx + 1, sx + 1)
         ELSE d_comp_loop(src, Put(dst, dx, src[sx + 1]), dp, dx + 1, sp, sx + 1)
    ELSE LET d1 == IF sx > sp THEN Put(dst, dp, (sx - sp) % 64) ELSE dst
             p1 == IF sx > sp THEN dx ELSE dp
             d2 == IF p1 > 1 THEN Put(d1, p1, 0) ELSE d1
             p2 == IF p1 > 1 THEN p1 + 1 ELSE p1
         IN  SubSeq(d2, 1, p2)

dns_d_comp(src) == d_comp_loop(src, <<>>, 0, 1, 0, 0)

dns_d_anchor(src) ==
    IF Len(src) = 0 THEN <<>>
    ELSE IF src[Len(src)] # 46 THEN src \o <<46>> ELSE src

(***************************************************************************)
(* Resource record routines (question section).                            *)
(***************************************************************************)
dns_rr_parse(src, P) ==
    LET bad == [error |-> "DNS_EILLEGAL", dn |-> [p |-> 0, len |-> 0], type |-> 0,
                class |-> 0, section |-> "QD"]
        p == dns_d_skip(src, P)
    IN  IF src >= P.end THEN bad
        ELSE IF P.end - p < 4 THEN bad
        ELSE [error |-> "0", dn |-> [p |-> src, len |-> p - src],
              type |-> Byte(P, p) * 256 + Byte(P, p + 1),
              class |-> Byte(P, p + 2) * 256 + Byte(P, p + 3),
              section |-> "QD"]

dns_rr_type(src, P) ==
    LET rr == dns_rr_parse(src, P) IN IF rr.error = "0" THEN rr.type ELSE 0

\* dns_p_push(P, DNS_S_QD, dn, dnlen, type, class, 0, 0)
dns_p_push_qd(P, dn, type, class) ==
    LET w == dns_d_comp(dn)
    IN  IF Len(w) = 0 THEN [error |-> "indeterminate", P |-> P]
        ELSE IF P.size - P.end < Len(w) + 4 THEN [error |-> "DNS_ENOBUFS", P |-> P]
        ELSE [error |-> "0",
              P |-> inc_count([P EXCEPT
                       !.data = Patch(SubSeq(P.data, 1, P.end), P.end,
                                    w \o <<type \div 256, type % 256,
                                           class \div 256, class % 256>>),
                       !.end = P.end + Len(w) + 4], "QD")]

(***************************************************************************)
(* struct dns_socket: the transport.                                       *)
(***************************************************************************)
DNS_SO_UDP_INIT == 1
DNS_SO_UDP_CONN == 2
DNS_SO_UDP_SEND == 3
DNS_SO_UDP_RECV == 4
DNS_SO_UDP_DONE == 5
DNS_SO_TCP_INIT == 6
DNS_SO_TCP_CONN == 7
DNS_SO_TCP_SEND == 8
DNS_SO_TCP_RECV == 9
DNS_SO_TCP_DONE == 10

\* errno values a failing system call is given in the model
Faults == {"EINTR", "ECONNREFUSED"}

\* the kernel: sockets, queued datagrams, the TCP byte stream
net_init(split, faults) ==
    [udp_rx |-> <<>>, udp_tx |-> <<>>, tcp_rx |-> <<>>, tcp_pend |-> <<>>,
     tcp_rrs |-> <<>>, tcp_eof |-> FALSE, tcp_tx |-> <<>>, tcp_open |-> 0,
     conn |-> "none", replied |-> FALSE, split |-> split, faults |-> faults,
     dgrams |-> 0]

\* close(fd) of a TCP descriptor
net_close(n, fd) ==
    IF fd = -1 THEN n
    ELSE [n EXCEPT !.tcp_open = @ - 1, !.conn = "none", !.tcp_rx = <<>>,
                   !.tcp_pend = <<>>, !.tcp_rrs = <<>>, !.tcp_eof = FALSE,
                   !.replied = FALSE]

dns_so_init(type) ==
    [udp |-> 3, tcp |-> -1, type |-> type, state |-> 0, qid |-> 0, qname |-> <<>>,
     qlen |-> 0, qtype |-> 0, qclass |-> 0, query |-> NULL, qout |-> 0,
     answer |-> NULL, apfx |-> <<0, 0>>, alen |-> 0, apos |-> 0]

dns_so_reset(s) ==
    [s EXCEPT !.tcp = -1, !.state = 0, !.qid = 0, !.qname = <<>>, !.qlen = 0,
              !.qtype = 0, !.qclass = 0, !.query = NULL, !.qout = 0,
              !.answer = NULL, !.apfx = <<0, 0>>, !.alen = 0, !.apos = 0]

\* an answer buffer of DNS_SO_MINBUF bytes whatever the length
dns_so_newanswer_min(s, len) ==
    [s EXCEPT !.answer = dns_p_init(DNS_SO_MINBUF), !.apfx = <<0, 0>>]

dns_so_newanswer(s, len) ==
    [s EXCEPT !.answer = dns_p_init(Max(len, DNS_SO_MINBUF)), !.apfx = <<0, 0>>]

\* mkqid is the value dns_so_mkqid() hands out for this call
dns_so_submit(s, Q, mkqid) ==
    LET s0 == dns_so_reset(s)
        rr == dns_rr_parse(12, Q)
        x == dns_d_expand(DNS_D_MAXNAME + 1, rr.dn.p, Q)
        Q1 == IF hdr_qid(Q) = 0 THEN set_qid(Q, mkqid) ELSE Q
    IN  IF rr.error # "0" THEN [so |-> s0, Q |-> Q, error |-> rr.error]
        ELSE IF x.len = 0 THEN [so |-> s0, Q |-> Q, error |-> x.error]
        ELSE [so |-> [dns_so_newanswer(s0, DNS_SO_MINBUF) EXCEPT
                        !.qname = x.dst, !.qlen = x.len, !.qtype = rr.type,
                        !.qclass = rr.class, !.query = Q1, !.qout = 0,
                        !.qid = hdr_qid(Q1),
                        !.state = IF s.type = "SOCK_STREAM" THEN DNS_SO_TCP_INIT
                                  ELSE DNS_SO_UDP_INIT],
              Q |-> Q1, error |-> "0"]

verify_noclass(s, P) ==
    LET rr == dns_rr_parse(12, P)
        x == dns_d_expand(DNS_D_MAXNAME + 1, rr.dn.p, P)
    IN  IF s.qid # hdr_qid(P) THEN "DNS_EUNKNOWN"
        ELSE IF dns_p_count(P, "QD") = 0 THEN "DNS_EUNKNOWN"
        ELSE IF rr.error # "0" THEN "DNS_EUNKNOWN"
        ELSE IF rr.type # s.qtype THEN "DNS_EUNKNOWN"
        ELSE IF x.hang THEN "hang"
        ELSE IF x.len = 0 THEN x.error
        ELSE IF x.len # s.qlen THEN "DNS_EUNKNOWN"
        ELSE IF strcasecmp(s.qname, x.dst) # 0 THEN "DNS_EUNKNOWN"
        ELSE "0"

\* "hang" when dns_d_expand() does not return
dns_so_verify(s, P) ==
    The({ The({ IF s.qid # hdr_qid(P) THEN "DNS_EUNKNOWN"
                ELSE IF dns_p_count(P, "QD") = 0 THEN "DNS_EUNKNOWN"
                ELSE IF rr.error # "0" THEN "DNS_EUNKNOWN"
                ELSE IF rr.type # s.qtype \/ rr.class # s.qclass THEN "DNS_EUNKNOWN"
                ELSE IF x.hang THEN "hang"
                ELSE IF x.len = 0 THEN x.error
                ELSE IF x.len # s.qlen THEN "DNS_EUNKNOWN"
                ELSE IF strcasecmp(s.qname, x.dst) # 0 THEN "DNS_EUNKNOWN"
                ELSE "0"
                : x \in {dns_d_expand(DNS_D_MAXNAME + 1, rr.dn.p, P)} })
          : rr \in {dns_rr_parse(12, P)} })

\* the byte at so->query->data[j], j >= -2, as dns_so_tcp_send() reads it;
\* -1 stands for a byte past query->end, which the code never wrote
query_byte(Q, j) ==
    IF j = -2 THEN (Q.end \div 256) % 256
    ELSE IF j = -1 THEN Q.end % 256
    ELSE IF j < Q.end THEN Byte(Q, j)
    ELSE -1

\* the k bytes one call of dns_so_tcp_send() hands to send(): qsrc is
\* &data[-2] + qout on entry, and each send() starts at &qsrc[so->qout]
tcp_send_bytes(s, k) == <<>> \o [i \in 1..k |-> query_byte(s.query, 2 * s.qout - 2 + (i - 1))]

(* The loop of dns_so_tcp_recv() over the bytes rx the stream holds now.     *)
RECURSIVE tcp_recv_loop(_, _, _, _)
tcp_recv_loop(s, rx, eof, rrs) ==
    LET aend == s.alen + 2
        n == Min(Len(rx), aend - s.apos)
        got == SubSeq(rx, 1, n)
        rest == SubSeq(rx, n + 1, Len(rx))
        pfx == IF s.apos < 2
               THEN Patch(s.apfx, s.apos, SubSeq(got, 1, Min(n, 2 - s.apos)))
               ELSE s.apfx
        s1 == [s EXCEPT !.apos = @ + n, !.apfx = pfx,
                        !.answer = IF s.apos >= 2
                                   THEN [@ EXCEPT !.data = Patch(@, s.apos - 2, got)]
                                   ELSE @]
        alen == pfx[1] * 256 + pfx[2]
        s2 == IF s1.alen = 0 /\ s1.apos >= 2
              THEN [dns_so_newanswer(s1, alen) EXCEPT !.alen = alen]
              ELSE s1
    IN  IF ~(s.apos < aend)
        THEN [so |-> [s EXCEPT !.answer = [@ EXCEPT !.end = s.alen, !.rrs = rrs]],
              rx |-> rx, error |-> "0"]
        ELSE IF rx = <<>>
        THEN [so |-> s, rx |-> rx, error |-> IF eof THEN "DNS_EUNKNOWN" ELSE "EAGAIN"]
        ELSE tcp_recv_loop(s2, rest, eof, rrs)

dns_so_tcp_recv(s, n) == tcp_recv_loop(s, n.tcp_rx, n.tcp_eof, n.tcp_rrs)

dns_so_fetch(s) ==
    IF s.state \in {DNS_SO_UDP_DONE, DNS_SO_TCP_DONE}
    THEN [so |-> [s EXCEPT !.answer = NULL], answer |-> s.answer, error |-> "unset"]
    ELSE [so |-> s, answer |-> NULL, error |-> "DNS_EUNKNOWN"]

(***************************************************************************)
(* Control state shared by the two specifications.                         *)
(*   pc.so   where the caller of the transport is: "idle" between calls,   *)
(*           "check" inside dns_so_check(), "hung" in a loop that does     *)
(*           not end, "crashed" after a NULL dereference                   *)
(*   ret.so  what the last dns_so_check() returned, "none" once another    *)
(*           call of the API has been made                                 *)
(*   pc.r    where the caller of the resolver is: "idle" between calls,    *)
(*           "exec" inside dns_r_exec(), "so" while dns_r_exec() is inside *)
(*           dns_so_check(), "crashed" after a NULL dereference or a       *)
(*           failed assert()                                               *)
(*   ret.r   what the last dns_r_check() returned; ret.fetch and ret.ferr  *)
(*           what the last fetch returned and stored in *error ("unset"    *)
(*           when it stored nothing)                                       *)
(*   gh      history: what was submitted, what the peer sent; sub[k] is    *)
(*           the number of dns_so_submit() calls for the query of frame k, *)
(*           fready whether an answer was ready when fetch was called      *)
(***************************************************************************)
pc_init == [so |-> "idle", r |-> "idle"]

ret_init == [so |-> "none", r |-> "none", fetch |-> "none", ferr |-> "unset"]

gh_init ==
    [submits |-> 0, query |-> NULL, tcp_msg |-> <<>>, fetched |-> NULL,
     fready |-> FALSE, sub |-> [i \in 0..7 |-> 0], resp |-> 0, timeouts |-> 0]

R_none == NULL

QIDS == {1, 258}

SoTypes == {"ANY", "SOCK_DGRAM", "SOCK_STREAM"}

\* a query as a caller builds it: dns_p_init(), the header, one question
Query(qid, rd, qname, qtype, qclass) ==
    set_rd(set_qid(dns_p_push_qd(dns_p_init(DNS_P_QBUFSIZ), qname, qtype, qclass).P,
                   qid), rd)

\* "a." chosen by the transport, "Ab.c." with the caller's own ID, and a
\* packet without a question
QUERIES ==
    { Query(0, 1, <<97, 46>>, DNS_T_A, DNS_C_IN),
      Query(7, 0, <<65, 98, 46, 99, 46>>, DNS_T_A, DNS_C_IN),
      dns_p_init(DNS_P_QBUFSIZ) }

SoStep(X) == pc.so = "check" /\ so.state = X

\* the error: label of dns_so_check() and its return
so_return(e) ==
    IF e = "EINTR" THEN UNCHANGED <<pc, ret>>
    ELSE /\ pc' = [pc EXCEPT !.so = "idle"]
         /\ ret' = [ret EXCEPT !.so = IF e \in {"EINPROGRESS", "EALREADY"}
                                      THEN "EAGAIN" ELSE e]

\* the results a system call can have now: success, or a failure while the
\* budget of injected failures lasts
Sys == {"0"} \cup (IF net.faults > 0 THEN Faults ELSE {})

fault(n) == [n EXCEPT !.faults = @ - 1]

so_UDP_INIT ==
    /\ SoStep(DNS_SO_UDP_INIT)
    /\ so' = [so EXCEPT !.state = @ + 1]
    /\ UNCHANGED <<net, R, pc, ret, gh>>
    /\ UNCHANGED codec

so_UDP_CONN ==
    /\ SoStep(DNS_SO_UDP_CONN)
    /\ \E e \in Sys :
          IF e = "0"
          THEN /\ so' = [so EXCEPT !.state = @ + 1]
               /\ UNCHANGED <<net, pc, ret>>
          ELSE /\ net' = fault(net)
               /\ so_return(e)
               /\ UNCHANGED so
    /\ UNCHANGED <<R, gh>>
    /\ UNCHANGED codec

so_UDP_SEND ==
    /\ SoStep(DNS_SO_UDP_SEND)
    /\ \E e \in Sys :
          IF e = "0"
          THEN /\ so' = [so EXCEPT !.state = @ + 1]
               /\ net' = [net EXCEPT !.udp_tx = SubSeq(so.query.data, 1, so.query.end)]
               /\ UNCHANGED <<pc, ret>>
          ELSE /\ net' = fault(net)
               /\ so_return(e)
               /\ UNCHANGED so
    /\ UNCHANGED <<R, gh>>
    /\ UNCHANGED codec

so_UDP_RECV ==
    /\ SoStep(DNS_SO_UDP_RECV)
    /\ \E e \in Sys :
          IF e # "0"
          THEN /\ net' = fault(net)
               /\ so_return(e)
               /\ UNCHANGED so
          ELSE IF net.udp_rx = <<>>
          THEN /\ so_return("EAGAIN")
               /\ UNCHANGED <<so, net>>
          ELSE \E d \in {Head(net.udp_rx)} :
               \E n \in {Min(Len(d.data), so.answer.size)} :
               \E A \in {[so.answer EXCEPT !.data = SubSeq(d.data, 1, n),
                                           !.end = n, !.rrs = d.rrs]} :
               \E v \in {IF n < 12 THEN "trash" ELSE dns_so_verify(so, A)} :
                   /\ net' = [net EXCEPT !.udp_rx = Tail(@)]
                   /\ so' = [so EXCEPT !.answer = A,
                                       !.state = IF v = "0" THEN @ + 1 ELSE @]
                   /\ pc' = IF v = "hang" THEN [pc EXCEPT !.so = "hung"] ELSE pc
                   /\ UNCHANGED ret
    /\ UNCHANGED <<R, gh>>
    /\ UNCHANGED codec

so_UDP_DONE_anytc ==
    /\ SoStep(DNS_SO_UDP_DONE)
    /\ IF so.answer = NULL
       THEN /\ pc' = [pc EXCEPT !.so = "crashed"]
            /\ UNCHANGED <<so, ret>>
       ELSE /\ so_return("0")
            /\ UNCHANGED so
    /\ UNCHANGED <<net, R, gh>>
    /\ UNCHANGED codec

so_UDP_DONE ==
    /\ SoStep(DNS_SO_UDP_DONE)
    /\ IF so.answer = NULL
       THEN /\ pc' = [pc EXCEPT !.so = "crashed"]
            /\ UNCHANGED <<so, ret>>
       ELSE IF hdr_tc(so.answer) = 0 \/ so.type = "SOCK_DGRAM"
       THEN /\ so_return("0")
            /\ UNCHANGED so
       ELSE /\ so' = [so EXCEPT !.state = @ + 1]
            /\ UNCHANGED <<pc, ret>>
    /\ UNCHANGED <<net, R, gh>>
    /\ UNCHANGED codec

so_TCP_INIT ==
    /\ SoStep(DNS_SO_TCP_INIT)
    /\ \E e \in Sys :
          IF e = "0"
          THEN /\ so' = [so EXCEPT !.tcp = 4, !.state = @ + 1]
               /\ net' = [net_close(net, so.tcp) EXCEPT !.tcp_open = @ + 1]
               /\ UNCHANGED <<pc, ret>>
          ELSE /\ so' = [so EXCEPT !.tcp = -1]
               /\ net' = fault(net_close(net, so.tcp))
               /\ so_return(e)
    /\ UNCHANGED <<R, gh>>
    /\ UNCHANGED codec

\* connect() on the non-blocking TCP socket
ConnectResults ==
    IF net.conn = "up" THEN {"EISCONN"}
    ELSE IF net.conn = "progress"
    THEN {"EISCONN"} \cup (IF net.faults > 0 THEN {"EALREADY", "ECONNREFUSED"} ELSE {})
    ELSE {"0", "EINPROGRESS"} \cup (IF net.faults > 0 THEN Faults ELSE {})

so_TCP_CONN ==
    /\ SoStep(DNS_SO_TCP_CONN)
    /\ \E e \in ConnectResults :
          IF e \in {"0", "EISCONN"}
          THEN /\ so' = [so EXCEPT !.state = @ + 1]
               /\ net' = [net EXCEPT !.conn = "up"]
               /\ UNCHANGED <<pc, ret>>
          ELSE /\ net' = IF e = "EINPROGRESS" THEN [net EXCEPT !.conn = "progress"]
                         ELSE fault(net)
               /\ so_return(e)
               /\ UNCHANGED so
    /\ UNCHANGED <<R, gh>>
    /\ UNCHANGED codec

\* one call of dns_so_tcp_send(): the kernel takes k bytes, then either all
\* is sent or send() fails with EAGAIN
so_TCP_SEND ==
    /\ SoStep(DNS_SO_TCP_SEND)
    /\ LET left == so.query.end + 2 - so.qout
       IN  \E k \in (IF net.faults > 0 THEN 0..left ELSE {left}) :
              /\ so' = [so EXCEPT !.qout = @ + k,
                                  !.state = IF k = left THEN @ + 1 ELSE @]
              /\ net' = [IF k = left THEN net ELSE fault(net) EXCEPT
                            !.tcp_tx = @ \o tcp_send_bytes(so, k)]
              /\ IF k = left THEN UNCHANGED <<pc, ret>> ELSE so_return("EAGAIN")
    /\ UNCHANGED <<R, gh>>
    /\ UNCHANGED codec

so_TCP_RECV ==
    /\ SoStep(DNS_SO_TCP_RECV)
    /\ LET r == dns_so_tcp_recv(so, net)
       IN  /\ so' = IF r.error = "0" THEN [r.so EXCEPT !.state = @ + 1] ELSE r.so
           /\ net' = [net EXCEPT !.tcp_rx = r.rx]
           /\ IF r.error = "0" THEN UNCHANGED <<pc, ret>> ELSE so_return(r.error)
    /\ UNCHANGED <<R, gh>>
    /\ UNCHANGED codec

so_TCP_DONE ==
    /\ SoStep(DNS_SO_TCP_DONE)
    /\ net' = net_close(net, so.tcp)
    /\ so' = [so EXCEPT !.tcp = -1]
    /\ IF so.answer = NULL
       THEN /\ pc' = [pc EXCEPT !.so = "crashed"]
            /\ UNCHANGED ret
       ELSE IF so.answer.end < 12 THEN so_return("DNS_EILLEGAL")
       ELSE LET v == dns_so_verify(so, so.answer)
            IN  IF v = "hang"
                THEN /\ pc' = [pc EXCEPT !.so = "hung"]
                     /\ UNCHANGED ret
                ELSE so_return(v)
    /\ UNCHANGED <<R, gh>>
    /\ UNCHANGED codec

\* the default: label of the switch
so_default ==
    /\ pc.so = "check"
    /\ so.state \notin DNS_SO_UDP_INIT..DNS_SO_TCP_DONE
    /\ so_return("DNS_EUNKNOWN")
    /\ UNCHANGED <<so, net, R, gh>>
    /\ UNCHANGED codec

so_check ==
    \/ so_UDP_INIT \/ so_UDP_CONN \/ so_UDP_SEND \/ so_UDP_RECV \/ so_UDP_DONE
    \/ so_TCP_INIT \/ so_TCP_CONN \/ so_TCP_SEND \/ so_TCP_RECV \/ so_TCP_DONE
    \/ so_default

(***************************************************************************)
(* The transport on its own: a caller that submits, polls, fetches and     *)
(* resets, and a network that delivers arbitrary datagrams and streams.    *)
(***************************************************************************)
SoSubmit ==
    /\ pc.so = "idle"
    /\ gh.submits < MaxSubmit
    /\ \E Q \in QUERIES, id \in QIDS :
          LET r == dns_so_submit(so, Q, id)
          IN  /\ so' = r.so
              /\ net' = net_close(net, so.tcp)
              /\ gh' = [gh EXCEPT !.submits = @ + 1,
                                  !.query = IF r.error = "0" THEN r.Q ELSE NULL]
    /\ ret' = ret_init
    /\ UNCHANGED <<R, pc>>
    /\ UNCHANGED codec

SoCheck ==
    /\ pc.so = "idle"
    /\ pc' = [pc EXCEPT !.so = "check"]
    /\ ret' = ret_init
    /\ UNCHANGED <<so, net, R, gh>>
    /\ UNCHANGED codec

SoFetch ==
    /\ pc.so = "idle"
    /\ LET r == dns_so_fetch(so)
       IN  /\ so' = r.so
           /\ ret' = [ret_init EXCEPT !.fetch = IF r.answer = NULL THEN "null"
                                               ELSE "packet",
                                      !.ferr = r.error]
           /\ gh' = [gh EXCEPT !.fetched = r.answer]
    /\ UNCHANGED <<net, R, pc>>
    /\ UNCHANGED codec

SoReset ==
    /\ pc.so = "idle"
    /\ so.state # 0
    /\ so' = dns_so_reset(so)
    /\ net' = net_close(net, so.tcp)
    /\ ret' = ret_init
    /\ gh' = [gh EXCEPT !.query = NULL]
    /\ UNCHANGED <<R, pc>>
    /\ UNCHANGED codec

\* offset of the type field of the question
qtype_off(Q) == dns_d_skip(12, Q)

flipcase(c) ==
    IF c >= 97 /\ c <= 122 THEN c - 32
    ELSE IF c >= 65 /\ c <= 90 THEN c + 32
    ELSE c

Variants ==
    {"ok", "tc", "case", "short", "id", "noq", "cut", "type", "class", "name",
     "loop", "ptr", "selfptr", "longer", "qd2", "nul"}

\* the datagrams the network can deliver in answer to the query Q
Variant(v, Q) ==
    LET d == SubSeq(Q.data, 1, Q.end)
        ok == Patch(d, 2, <<d[3] + 128>>)
        t == qtype_off(Q)
        hdr == SubSeq(ok, 1, 12)
        wire == SubSeq(ok, 13, t)
        tc == SubSeq(ok, t + 1, t + 4)
    IN  CASE v = "ok" -> ok
          [] v = "tc" -> Patch(ok, 2, <<ok[3] + 2>>)
          [] v = "case" -> Patch(ok, 13, <<flipcase(ok[14])>>)
          [] v = "short" -> SubSeq(ok, 1, 11)
          [] v = "id" -> Patch(ok, 1, <<(ok[2] + 1) % 256>>)
          [] v = "noq" -> Patch(ok, 4, <<0, 0>>)
          [] v = "cut" -> SubSeq(ok, 1, Len(ok) - 1)
          [] v = "type" -> Patch(ok, t + 1, <<(ok[t + 2] + 1) % 256>>)
          [] v = "class" -> Patch(ok, t + 3, <<(ok[t + 4] + 1) % 256>>)
          [] v = "name" -> Patch(ok, 13, <<ok[14] + 1>>)
          [] v = "loop" -> hdr \o <<1, 97, 192, 12>> \o tc
          [] v = "ptr" -> hdr \o <<192, 18>> \o tc \o wire
          [] v = "selfptr" -> hdr \o <<192, 12>> \o tc
          [] v = "longer" -> hdr \o SubSeq(wire, 1, Len(wire) - 1) \o <<1, 120, 0>> \o tc
          [] v = "qd2" -> Patch(ok, 4, <<0, 2>>)
          [] v = "nul" -> Patch(ok, 13, <<0>>)

\* a datagram arrives while the query is outstanding; the socket buffer
\* holds one datagram at a time
NetUdp ==
    /\ gh.query # NULL
    /\ so.state \in DNS_SO_UDP_INIT..DNS_SO_UDP_RECV
    /\ net.udp_rx = <<>>
    /\ net.dgrams < MaxDgrams
    /\ \E v \in Variants :
          net' = [net EXCEPT !.dgrams = @ + 1,
                             !.udp_rx = Append(@, [data |-> Variant(v, gh.query),
                                                   rrs |-> <<>>])]
    /\ UNCHANGED <<so, R, pc, ret, gh>>
    /\ UNCHANGED codec

TcpVariants == {"ok", "id", "short", "zero", "loop", "case", "noq", "qd2"}

\* the peer answers once on a connection: the message behind its length
NetTcp ==
    /\ gh.query # NULL
    /\ net.conn = "up"
    /\ ~net.replied
    /\ \E v \in TcpVariants :
          LET m == IF v = "zero" THEN <<>> ELSE Variant(v, gh.query)
          IN  /\ net' = [net EXCEPT !.replied = TRUE,
                                    !.tcp_pend = <<Len(m) \div 256, Len(m) % 256>> \o m]
              /\ gh' = [gh EXCEPT !.tcp_msg = m]
    /\ UNCHANGED <<so, R, pc, ret>>
    /\ UNCHANGED codec

\* the next k bytes of the stream arrive
NetTcpSeg ==
    /\ net.tcp_pend # <<>>
    /\ \E k \in (IF net.split THEN 1..Len(net.tcp_pend) ELSE {Len(net.tcp_pend)}) :
          net' = [net EXCEPT !.tcp_rx = @ \o SubSeq(net.tcp_pend, 1, k),
                             !.tcp_pend = SubSeq(@, k + 1, Len(@))]
    /\ UNCHANGED <<so, R, pc, ret, gh>>
    /\ UNCHANGED codec

\* the peer closes the connection, whatever it has sent
NetTcpEof ==
    /\ net.conn = "up"
    /\ ~net.tcp_eof
    /\ net' = [net EXCEPT !.tcp_eof = TRUE, !.tcp_pend = <<>>]
    /\ UNCHANGED <<so, R, pc, ret, gh>>
    /\ UNCHANGED codec

InitSo ==
    /\ \E t \in SoTypes : so = dns_so_init(t)
    /\ \E b \in BOOLEAN : net = net_init(b, IF b THEN 0 ELSE MaxFaults)
    /\ R = R_none
    /\ pc = pc_init
    /\ ret = ret_init
    /\ gh = gh_init
    /\ pkt = NULL
    /\ prm = NULL
    /\ hist = NULL
    /\ lib = NULL

NextSo ==
    \/ SoSubmit \/ SoCheck \/ SoFetch \/ SoReset
    \/ so_check
    \/ NetUdp \/ NetTcp \/ NetTcpSeg \/ NetTcpEof

SpecSo == InitSo /\ [][NextSo]_vars

(***************************************************************************)
(* Claims about the transport.                                             *)
(***************************************************************************)
\* the question of a packet: its name as text, its type, its class
Question(P) ==
    LET rr == dns_rr_parse(12, P)
    IN  [ok |-> rr.error = "0" /\ dns_d_expand(DNS_D_MAXNAME + 1, 12, P).len > 0,
         qname |-> dns_d_expand(DNS_D_MAXNAME + 1, 12, P).dst,
         qtype |-> rr.type, qclass |-> rr.class]

SameText(a, b) == Len(a) = Len(b) /\ \A i \in 1..Len(a) : tolower(a[i]) = tolower(b[i])

\* P answers the query Q: same ID, same type and class, same name up to case
Answers(P, Q) ==
    /\ P # NULL
    /\ P.end >= 12
    /\ hdr_qid(P) = hdr_qid(Q)
    /\ Question(P).ok
    /\ Question(P).qtype = Question(Q).qtype
    /\ Question(P).qclass = Question(Q).qclass
    /\ SameText(Question(P).qname, Question(Q).qname)

\* C1: whenever dns_so_check() has returned 0, the answer the socket holds
\* carries the ID, the question type and class of the submitted query and a
\* question name equal to the submitted one up to case.
C1_VerifiedAnswer == ret.so = "0" => Answers(so.answer, gh.query)

\* C1 witness: check() has returned 0 on an answer whose name differs in case
C1_Witness ==
    /\ ret.so = "0"
    /\ Answers(so.answer, gh.query)
    /\ Question(so.answer).qname # Question(gh.query).qname

\* the datagram d as a packet
AsPacket(d) ==
    [data |-> d.data, end |-> Len(d.data), size |-> DNS_SO_MINBUF, rrs |-> d.rrs]

\* recv() is about to hand dns_so_check() a datagram that does not answer
\* the query, and this step takes it
TakesFailing ==
    /\ SoStep(DNS_SO_UDP_RECV)
    /\ net.udp_rx # <<>>
    /\ ~Answers(AsPacket(Head(net.udp_rx)), gh.query)
    /\ net' = [net EXCEPT !.udp_rx = Tail(@)]

\* C3: in UDP_RECV a datagram that fails verification is discarded: check()
\* returns nothing because of it and goes on receiving, the state stays
\* UDP_RECV and the stored identity of the query is unchanged.
C3_Discarded ==
    [][TakesFailing =>
          /\ pc'.so = "check"
          /\ ret' = ret
          /\ so'.state = DNS_SO_UDP_RECV
          /\ so'.qid = so.qid /\ so'.qname = so.qname /\ so'.qlen = so.qlen
          /\ so'.qtype = so.qtype /\ so'.qclass = so.qclass]_vars

\* C4, state part: one TCP descriptor at most and none leaked; a datagram
\* socket stays in the UDP states; a 0 return happens in UDP_DONE only
\* without TC or on a datagram socket, and in TCP_DONE only with the TCP
\* descriptor closed and the message of the TCP stream held and verified.
C4_Inv ==
    /\ net.tcp_open = (IF so.tcp = -1 THEN 0 ELSE 1)
    /\ so.type = "SOCK_DGRAM" => so.state <= DNS_SO_UDP_DONE /\ so.tcp = -1
    /\ ret.so = "0" =>
          /\ so.state \in {DNS_SO_UDP_DONE, DNS_SO_TCP_DONE}
          /\ so.state = DNS_SO_UDP_DONE =>
                /\ so.type # "SOCK_STREAM"
                /\ hdr_tc(so.answer) = 0 \/ so.type = "SOCK_DGRAM"
          /\ so.state = DNS_SO_TCP_DONE =>
                /\ so.tcp = -1
                /\ SubSeq(so.answer.data, 1, so.answer.end) = gh.tcp_msg
                /\ Answers(so.answer, gh.query)

\* C4, step part: inside check() the state moves one state at a time, from
\* UDP_DONE on to TCP_INIT only with TC set on a socket that is no datagram
\* socket, and TCP_INIT leaves exactly one fresh descriptor open.
C4_Step ==
    so'.state # so.state =>
       /\ \/ pc.so = "check" /\ so'.state = so.state + 1
          \/ pc.so = "idle" /\ so'.state = 0
          \/ pc.so = "idle" /\ so'.state = (IF so.type = "SOCK_STREAM"
                                            THEN DNS_SO_TCP_INIT ELSE DNS_SO_UDP_INIT)
       /\ so.state = DNS_SO_UDP_DONE /\ so'.state = DNS_SO_TCP_INIT =>
             hdr_tc(so.answer) = 1 /\ so.type # "SOCK_DGRAM"
       /\ so.state = DNS_SO_TCP_INIT /\ so'.state = DNS_SO_TCP_CONN =>
             so'.tcp # -1 /\ net'.tcp_open = 1

\* C4: after a verified UDP answer with TC a socket that is no datagram
\* socket does not return 0 in UDP_DONE; it closes the TCP descriptor it
\* holds, goes through TCP_INIT, TCP_CONN, TCP_SEND and TCP_RECV to TCP_DONE
\* and returns the verified answer of the TCP stream; with SOCK_DGRAM or
\* without TC the query completes in UDP_DONE.
C4_TcpFallback == [][C4_Inv' /\ C4_Step]_vars

\* C4 witness: a socket of no fixed type got a truncated UDP answer and has
\* returned 0 in TCP_DONE
C4_Witness ==
    /\ so.type = "ANY"
    /\ net.dgrams > 0
    /\ so.state = DNS_SO_TCP_DONE
    /\ ret.so = "0"

(***************************************************************************)
(* Resource records behind the question.  A record of P.rrs is             *)
(* [name, type, class, rd]: the owner name as text and the parsed rdata    *)
(* ([addr] for A, [host] for NS and CNAME, [preference, host] for MX).     *)
(* Where the code holds the offset of a record the model holds its index   *)
(* in packet order: 0 is the question, i > 0 is P.rrs[i], and RecEnd(P),   *)
(* the index behind the last record, stands for P->end.  The capacity of   *)
(* a packet is checked for the question only: the records of the model     *)
(* are few and pushed where the code has room for them.                    *)
(***************************************************************************)
RecEnd(P) == IF P.end <= 12 THEN 0 ELSE 1 + Len(P.rrs)

DNS_S_ALL == {"QD", "AN", "NS", "AR"}

\* section of the record at index idx, by the counts of the header; "NONE"
\* is the 0 the code gets for a record the counts do not cover
dns_rr_section(idx, P) ==
    LET c1 == dns_p_count(P, "QD")
        c2 == c1 + dns_p_count(P, "AN")
        c3 == c2 + dns_p_count(P, "NS")
        c4 == c3 + dns_p_count(P, "AR")
    IN  IF idx < c1 THEN "QD"
        ELSE IF idx < c2 THEN "AN"
        ELSE IF idx < c3 THEN "NS"
        ELSE IF idx < c4 THEN "AR"
        ELSE "NONE"

\* dns_rr_parse() and dns_d_expand() of the owner at index idx
rr_at(P, idx) ==
    IF idx = 0
    THEN The({ [name |-> dns_d_expand(DNS_D_MAXNAME + 1, 12, P).dst,
                type |-> rr.type, class |-> rr.class, rd |-> NULL]
               : rr \in {dns_rr_parse(12, P)} })
    ELSE P.rrs[idx]

dns_a_cmp(a, b) == IF a.addr < b.addr THEN -1 ELSE IF a.addr > b.addr THEN 1 ELSE 0

dns_ns_cmp(a, b) == strcasecmp(a.host, b.host)

dns_mx_cmp(a, b) ==
    IF a.preference # b.preference THEN a.preference - b.preference
    ELSE strcasecmp(a.host, b.host)

dns_any_cmp(a, x, b, y) ==
    IF x # y THEN x - y
    ELSE CASE x = DNS_T_A -> dns_a_cmp(a, b)
           [] x \in {DNS_T_NS, DNS_T_CNAME} -> dns_ns_cmp(a, b)
           [] x = DNS_T_MX -> dns_mx_cmp(a, b)
           [] OTHER -> -1

dns_rr_cmp(r0, P0, r1, P1) ==
    The({ IF a.type # b.type THEN a.type - b.type
          ELSE IF a.class # b.class THEN a.class - b.class
          ELSE The({ IF cmp # 0 THEN cmp ELSE dns_any_cmp(a.rd, a.type, b.rd, b.type)
                     : cmp \in {strcasecmp(a.name, b.name)} })
          : a \in {rr_at(P0, r0)}, b \in {rr_at(P1, r1)} })

\* struct dns_rr_i: the filter (section is a set, {} for any; type 0 for
\* any; name NULL for any), the order, and the state with its saved copy
i_state0 == [exec |-> 0, next |-> 0, count |-> 0]

dns_rr_i_new(section, type, name) ==
    [section |-> section, type |-> type, name |-> name, sort |-> "0", args0 |-> 0,
     state |-> i_state0, saved |-> i_state0]

dns_rr_i_init(i) == [i EXCEPT !.state = i_state0, !.saved = i_state0]

dns_rr_i_save(i) == [i EXCEPT !.saved = i.state]

dns_rr_i_rewind(i) == [i EXCEPT !.state = i.saved]

dns_rr_i_match(idx, i, P) ==
    /\ i.section = {} \/ dns_rr_section(idx, P) \in i.section
    /\ \E rr \in {rr_at(P, idx)} :
          /\ i.type = 0 \/ rr.type = i.type \/ i.type = DNS_T_ALL
          /\ i.name = NULL \/ strcasecmp(rr.name, i.name) = 0

\* the records of P that match, in packet order
Matches(i, P) == { idx \in 0..(RecEnd(P) - 1) : dns_rr_i_match(idx, i, P) }

\* dns_rr_foreach(): a fresh iterator in packet order over a packet the
\* loop body does not change
RECURSIVE SetToSeq(_)
SetToSeq(S) ==
    IF S = {} THEN <<>>
    ELSE LET m == CHOOSE x \in S : \A y \in S : x <= y
         IN  <<m>> \o SetToSeq(S \ {m})

dns_rr_foreach(P, section, type, name) ==
    SetToSeq(Matches(dns_rr_i_new(section, type, name), P))

\* the first A record of the host the NS record idx names, 0 without one
ns_glue(idx, P) ==
    The({ IF Len(rr_at(P, idx).rd.host) = 0 \/ g = <<>> THEN 0 ELSE Head(g)
          : g \in {dns_rr_foreach(P, DNS_S_ALL \ {"QD"}, DNS_T_A, rr_at(P, idx).rd.host)} })

(* dns_r_nameserv_cmp(): glue first, glue of the original packet before     *)
(* glue added later, then the shuffle.  The shuffle of a record against     *)
(* itself is 0; between two records it is random in the code and packet     *)
(* order here, and no packet of the model holds two NS records.             *)
dns_r_nameserv_cmp(a, b, i, P) ==
    The({ LET g0 == IF x # 0 THEN 1 ELSE 0
              g1 == IF y # 0 THEN 1 ELSE 0
              o0 == IF x < i.args0 THEN 1 ELSE 0
              o1 == IF y < i.args0 THEN 1 ELSE 0
          IN  IF g1 - g0 # 0 THEN g1 - g0
              ELSE IF o1 - o0 # 0 THEN o1 - o0
              ELSE a - b
          : x \in {ns_glue(a, P)}, y \in {ns_glue(b, P)} })

dns_rr_i_packet(a, b) == a - b

rr_sort(a, b, i, P) ==
    IF i.sort = "dns_r_nameserv_cmp" THEN dns_r_nameserv_cmp(a, b, i, P)
    ELSE dns_rr_i_packet(a, b)

\* the second loop of dns_rr_i_start(): r0 is the least record so far
RECURSIVE i_start_cont(_, _, _, _)
i_start_cont(r0, rest, i, P) ==
    IF rest = <<>> THEN r0
    ELSE i_start_cont(IF rr_sort(Head(rest), r0, i, P) < 0 THEN Head(rest) ELSE r0,
                      Tail(rest), i, P)

dns_rr_i_start(i, P) ==
    The({ IF m = <<>> THEN RecEnd(P) ELSE i_start_cont(Head(m), Tail(m), i, P)
          : m \in {SetToSeq(Matches(i, P))} })

\* the second loop of dns_rr_i_skip(): rZ is the least record above r0 so far
RECURSIVE i_skip_cont(_, _, _, _, _)
i_skip_cont(r0, rZ, rest, i, P) ==
    IF rest = <<>> THEN rZ
    ELSE i_skip_cont(r0,
                     IF rr_sort(Head(rest), rZ, i, P) < 0 THEN Head(rest) ELSE rZ,
                     Tail(rest), i, P)

dns_rr_i_skip(rp, i, P) ==
    The({ IF above = <<>> THEN RecEnd(P)
          ELSE i_skip_cont(rp, Head(above), Tail(above), i, P)
          : above \in {SetToSeq({ r \in Matches(i, P) : rr_sort(r, rp, i, P) > 0 })} })

\* dns_rr_grep(rr, 1, i, P, &error): n records found (0 or 1), the record, and
\* the iterator afterwards
dns_rr_grep(i, P) ==
    The({ IF i1.state.exec = 1 /\ i1.state.next < RecEnd(P)
          THEN [n |-> 1, rr |-> i1.state.next,
                i |-> [i1 EXCEPT !.state.count = @ + 1,
                                 !.state.next = dns_rr_i_skip(i1.state.next, i1, P)]]
          ELSE [n |-> 0, rr |-> 0, i |-> i1]
          : i1 \in {IF i.state.exec = 0
                    THEN The({ [j EXCEPT !.state.next = dns_rr_i_start(j, P),
                                         !.state.exec = 1]
                               : j \in {[i EXCEPT !.sort = IF @ = "0" THEN "dns_rr_i_packet"
                                                            ELSE @]} })
                    ELSE i} })

\* dns_p_push() of a record behind the question
dns_p_push(P, section, rr) ==
    LET P1 == [P EXCEPT !.rrs = Append(@, rr)]
    IN  IF section \in DNS_S_ALL \ {"QD"} THEN inc_count(P1, section) ELSE P1

\* dns_rr_copy() of the record idx of Q, which the caller files under section
dns_rr_copy(P, idx, section, Q) ==
    The({ IF section = "QD"
          THEN dns_p_push_qd(P, rr.name, rr.type, rr.class)
          ELSE [error |-> "0", P |-> dns_p_push(P, section, rr)]
          : rr \in {rr_at(Q, idx)} })

dns_rr_exists(rr0, section, P0, P1) ==
    \E r1 \in Matches(dns_rr_i_new({section}, rr_at(P0, rr0).type, NULL), P1) :
        dns_rr_cmp(rr0, P0, r1, P1) = 0

(***************************************************************************)
(* The hosts table, the hints and the search list.                         *)
(***************************************************************************)
\* an exact-size copy: dns_p_copy(dns_p_init(malloc(dns_p_sizeof(P)), ...), P)
p_dup(P) == dns_p_copy(dns_p_init(Max(12, P.end)), P)

\* the pushes of a loop: the records idxs of Q appended to P under section
RECURSIVE copy_all(_, _, _, _)
copy_all(P, idxs, section, Q) ==
    IF idxs = <<>> THEN P
    ELSE copy_all(dns_rr_copy(P, Head(idxs), section, Q).P, Tail(idxs), section, Q)

\* the pushes of a loop: the records rrs appended to P under section
RECURSIVE push_all(_, _, _)
push_all(P, section, rrs) ==
    IF rrs = <<>> THEN P
    ELSE push_all(dns_p_push(P, section, Head(rrs)), section, Tail(rrs))

\* hosts is the list of entries [af, host, addr], host anchored by
\* dns_hosts_insert()
dns_hosts_query(hosts, Q) ==
    The({ The({ LET hit == SelectSeq(hosts, LAMBDA ent :
                               ent.af = "AF_INET" /\ strcasecmp(x.dst, ent.host) = 0)
                    an == <<>> \o [k \in 1..Len(hit) |->
                                     [name |-> x.dst, type |-> rr.type, class |-> rr.class,
                                      rd |-> [addr |-> hit[k].addr]]]
                IN  IF rr.error # "0" THEN [P |-> NULL, error |-> rr.error]
                    ELSE IF x.len = 0 THEN [P |-> NULL, error |-> x.error]
                    ELSE IF q.error # "0" THEN [P |-> NULL, error |-> q.error]
                    ELSE IF rr.type = DNS_T_A
                    THEN [P |-> p_dup(push_all(q.P, "AN", an)), error |-> "0"]
                    ELSE [P |-> p_dup(q.P), error |-> "0"]
                : q \in {dns_p_push_qd(dns_p_init(512), x.dst, rr.type, rr.class)} })
          : rr \in {dns_rr_parse(12, Q)}, x \in {dns_d_expand(DNS_D_MAXNAME + 1, 12, Q)} })

dns_d_cleave(src) ==
    LET dots == { k \in 2..Len(src) : src[k] = 46 }
        dot == CHOOSE k \in dots : \A j \in dots : k <= j
    IN  IF Len(src) = 0 \/ dots = {} THEN <<>>
        ELSE IF Len(src) - (dot - 1) > 1 THEN SubSeq(src, dot + 1, Len(src))
        ELSE SubSeq(src, dot, Len(src))

\* hints is the list of zones [zone, addrs], addrs the list of [addr, priority]
dns_hints_fetch(H, zone) ==
    LET hit == SelectSeq(H, LAMBDA soa : strcasecmp(zone, soa.zone) = 0)
    IN  IF hit = <<>> THEN NULL ELSE Head(hit)

\* by priority; the shuffle among equal priorities is random in the code,
\* and the addresses of a zone of the model have distinct priorities
dns_hints_i_cmp(a, b, soa) == soa.addrs[a].priority - soa.addrs[b].priority

\* the addresses dns_hints_grep() yields one by one, in its order
RECURSIVE hints_grep_from(_, _)
hints_grep_from(soa, done) ==
    LET left == { k \in 1..Len(soa.addrs) : k \notin done }
        nxt == CHOOSE k \in left : \A j \in left : dns_hints_i_cmp(k, j, soa) <= 0
    IN  IF left = {} THEN <<>>
        ELSE <<soa.addrs[nxt].addr>> \o hints_grep_from(soa, done \cup {nxt})

dns_hints_grep(H, zone) ==
    IF dns_hints_fetch(H, zone) = NULL THEN <<>>
    ELSE hints_grep_from(dns_hints_fetch(H, zone), {})

\* the do-while of dns_hints_query(): the addresses of the zone and of every
\* zone above it
RECURSIVE hints_walk(_, _)
hints_walk(H, zone) ==
    dns_hints_grep(H, zone)
       \o (IF dns_d_cleave(zone) = <<>> THEN <<>> ELSE hints_walk(H, dns_d_cleave(zone)))

set_qr(P) == [P EXCEPT !.data = Patch(P.data, 2, <<(Byte(P, 2) % 128) + 128>>)]

\* "hints.local."
HintsLocal == <<104, 105, 110, 116, 115, 46, 108, 111, 99, 97, 108, 46>>

dns_hints_query(H, Q) ==
    The({ The({ LET ns == dns_p_push(q.P, "NS",
                                     [name |-> <<46>>, type |-> DNS_T_NS, class |-> DNS_C_IN,
                                      rd |-> [host |-> HintsLocal]])
                    ar == <<>> \o [k \in 1..Len(as) |->
                                     [name |-> HintsLocal, type |-> DNS_T_A,
                                      class |-> DNS_C_IN, rd |-> [addr |-> as[k]]]]
                IN  IF g.n = 0 THEN [P |-> NULL, error |-> "indeterminate"]
                    ELSE IF x.len = 0 THEN [P |-> NULL, error |-> x.error]
                    ELSE IF q.error # "0" THEN [P |-> NULL, error |-> q.error]
                    ELSE [P |-> p_dup(push_all(ns, "AR", ar)), error |-> "0"]
                : q \in {dns_rr_copy(set_qr(dns_p_init(512)), g.rr, "QD", Q)},
                  as \in {hints_walk(H, x.dst)} })
          : g \in {dns_rr_grep(dns_rr_i_new({"QD"}, 0, NULL), Q)},
            x \in {dns_d_expand(DNS_D_MAXNAME + 1, 12, Q)} })

\* dns_resconf_i_t: the three bytes of *state as a record
search0 == [st |-> 0, srchi |-> 0, ndots |-> 0]

ndots_of(qname) == Cardinality({ k \in 1..Len(qname) : qname[k] = 46 })

\* the next candidate name of the search list, dst empty (length 0) at the end
dns_resconf_search_twice(qname, qlen, resconf, state) ==
    LET q == SubSeq(qname, 1, qlen)
        nd == IF state.st = 0 THEN state.ndots + ndots_of(q) ELSE state.ndots
        case2 == IF nd >= 0
                 THEN [dst |-> dns_d_anchor(q), state |-> [state EXCEPT !.st = 3, !.ndots = nd]]
                 ELSE [dst |-> <<>>, state |-> [state EXCEPT !.st = 3, !.ndots = nd]]
        case1 == IF state.srchi < Len(resconf.search)
                    /\ strlen(resconf.search[state.srchi + 1]) > 0
                 THEN [dst |-> dns_d_anchor(q) \o resconf.search[state.srchi + 1],
                       state |-> [st |-> 1, srchi |-> state.srchi + 1, ndots |-> nd]]
                 ELSE case2
    IN  CASE state.st = 0 ->
                IF nd >= resconf.options.ndots
                THEN [dst |-> dns_d_anchor(q), state |-> [state EXCEPT !.st = 1, !.ndots = nd]]
                ELSE case1
          [] state.st = 1 -> case1
          [] state.st = 2 -> case2
          [] OTHER -> [dst |-> <<>>, state |-> state]

dns_resconf_search(qname, qlen, resconf, state) ==
    LET q == SubSeq(qname, 1, qlen)
        nd == IF state.st = 0 THEN state.ndots + ndots_of(q) ELSE state.ndots
        case2 == IF nd < resconf.options.ndots
                 THEN [dst |-> dns_d_anchor(q), state |-> [state EXCEPT !.st = 3, !.ndots = nd]]
                 ELSE [dst |-> <<>>, state |-> [state EXCEPT !.st = 3, !.ndots = nd]]
        case1 == IF state.srchi < Len(resconf.search)
                    /\ strlen(resconf.search[state.srchi + 1]) > 0
                 THEN [dst |-> dns_d_anchor(q) \o resconf.search[state.srchi + 1],
                       state |-> [st |-> 1, srchi |-> state.srchi + 1, ndots |-> nd]]
                 ELSE case2
    IN  CASE state.st = 0 ->
                IF nd >= resconf.options.ndots
                THEN [dst |-> dns_d_anchor(q), state |-> [state EXCEPT !.st = 1, !.ndots = nd]]
                ELSE case1
          [] state.st = 1 -> case1
          [] state.st = 2 -> case2
          [] OTHER -> [dst |-> <<>>, state |-> state]

(***************************************************************************)
(* struct dns_resolver.                                                    *)
(***************************************************************************)
DNS_R_INIT == 0
DNS_R_GLUE == 1
DNS_R_SWITCH == 2
DNS_R_FILE == 3
DNS_R_BIND == 4
DNS_R_SEARCH == 5
DNS_R_HINTS == 6
DNS_R_ITERATE == 7
DNS_R_FOREACH_NS == 8
DNS_R_RESOLV0_NS == 9
DNS_R_RESOLV1_NS == 10
DNS_R_FOREACH_A == 11
DNS_R_QUERY_A == 12
DNS_R_CNAME0_A == 13
DNS_R_CNAME1_A == 14
DNS_R_FINISH == 15
DNS_R_SMART0_A == 16
DNS_R_SMART1_A == 17
DNS_R_DONE == 18
DNS_R_SERVFAIL == 19
DNS_R_MAXDEPTH == 8

\* memset(frame, 0, sizeof *frame)
frame0 ==
    [state |-> DNS_R_INIT, which |-> 0, attempts |-> 0, query |-> NULL, answer |-> NULL,
     hints |-> NULL, hints_i |-> dns_rr_i_new({}, 0, NULL),
     hints_j |-> dns_rr_i_new({}, 0, NULL), hints_ns |-> 0, ans_cname |-> 0]

dns_r_reset_frame(r, k) == [r EXCEPT !.stack[k] = frame0]

\* everything from qname on is zeroed
dns_r_reset(r) ==
    [r EXCEPT !.qname = <<>>, !.qlen = 0, !.qtype = 0, !.qclass = 0, !.search = search0,
              !.smart = dns_rr_i_new({}, 0, NULL),
              !.stack = [k \in 0..(DNS_R_MAXDEPTH - 1) |-> frame0], !.sp = 0]

dns_r_open(resconf, hosts, hints) ==
    [resconf |-> resconf, hosts |-> hosts, hints |-> hints, qname |-> <<>>, qlen |-> 0,
     qtype |-> 0, qclass |-> 0, search |-> search0, smart |-> dns_rr_i_new({}, 0, NULL),
     stack |-> [k \in 0..(DNS_R_MAXDEPTH - 1) |-> frame0], sp |-> 0]

\* the records dns_r_glue() collects: those of the answers of the frames
\* 0..sp with the name and the type, as answer records
RECURSIVE glue_frames(_, _, _, _, _)
glue_frames(P, r, k, qname, type) ==
    IF k > r.sp THEN P
    ELSE glue_frames(IF r.stack[k].answer = NULL THEN P
                     ELSE copy_all(P, dns_rr_foreach(r.stack[k].answer, DNS_S_ALL \ {"QD"},
                                                     type, qname),
                                   "AN", r.stack[k].answer),
                     r, k + 1, qname, type)

dns_r_glue(r, Q) ==
    The({ The({ IF x.len = 0 \/ qtype = 0 \/ q.error # "0" THEN NULL
                ELSE The({ IF dns_p_count(P1, "AN") > 0 THEN p_dup(P1)
                           ELSE IF dns_p_count(P2, "AN") = 0 THEN NULL
                           ELSE p_dup(P2)
                           : P1 \in {glue_frames(q.P, r, 0, x.dst, qtype)},
                             P2 \in {glue_frames(q.P, r, 0, x.dst, DNS_T_CNAME)} })
                : q \in {dns_p_push_qd(dns_p_init(512), SubSeq(x.dst, 1, strlen(x.dst)),
                                       qtype, DNS_C_IN)} })
          : x \in {dns_d_expand(DNS_D_MAXNAME + 1, 12, Q)}, qtype \in {dns_rr_type(12, Q)} })

dns_r_mkquery(r, qname, qtype, qclass) ==
    LET q == dns_p_push_qd(dns_p_init(DNS_P_QBUFSIZ), SubSeq(qname, 1, strlen(qname)),
                           qtype, qclass)
    IN  IF q.error # "0" THEN [P |-> NULL, error |-> q.error]
        ELSE [P |-> set_rd(q.P, 1 - r.resconf.options.recurse), error |-> "0"]

\* the records of P0 and P1 in the order dns_r_merge() visits them
merge_items(P0, P1) ==
    LET of(P, sec) == The({ <<>> \o [k \in 1..Len(m) |->
                                       [P |-> P, rr |-> m[k], section |-> sec]]
                            : m \in {dns_rr_foreach(P, {sec}, 0, NULL)} })
    IN  of(P0, "AN") \o of(P1, "AN") \o of(P0, "NS") \o of(P1, "NS")
          \o of(P0, "AR") \o of(P1, "AR")

RECURSIVE merge_fold(_, _)
merge_fold(P2, items) ==
    IF items = <<>> THEN P2
    ELSE LET it == Head(items)
             dup == \E r2 \in Matches(dns_rr_i_new(DNS_S_ALL \ {"QD"},
                                                   rr_at(it.P, it.rr).type, NULL), P2) :
                        dns_rr_cmp(it.rr, it.P, r2, P2) = 0
         IN  merge_fold(IF dup THEN P2 ELSE dns_rr_copy(P2, it.rr, it.section, it.P).P,
                        Tail(items))

merge_first(P0, P1) == P0

dns_r_merge(P0, P1) ==
    LET q == copy_all(dns_p_init(P0.end + P1.end), dns_rr_foreach(P0, {"QD"}, 0, NULL),
                      "QD", P0)
    IN  merge_fold(q, merge_items(P0, P1))

(***************************************************************************)
(* dns_r_exec(): one action for each case of its switch.  A case that      *)
(* falls through increments F->state, which is the goto to the next case.  *)
(***************************************************************************)
\* sizeof R->resconf->lookup
LookupSize == 3

RStep(X) == pc.r = "exec" /\ pc.so = "idle" /\ R.stack[R.sp].state = X

\* #define goto(sp, i)
goto(r, sp, i) == [r EXCEPT !.stack[sp].state = i]

\* the error: label of dns_r_exec() and the return of dns_r_check()
r_return(e) ==
    /\ pc' = [pc EXCEPT !.r = "idle"]
    /\ ret' = [ret EXCEPT !.r = e]

r_crash ==
    /\ pc' = [pc EXCEPT !.r = "crashed"]
    /\ UNCHANGED ret

r_INIT ==
    /\ RStep(DNS_R_INIT)
    /\ R' = goto(R, R.sp, DNS_R_GLUE)
    /\ UNCHANGED <<so, net, pc, ret, gh>>
    /\ UNCHANGED codec

r_GLUE ==
    /\ RStep(DNS_R_GLUE)
    /\ LET F == R.stack[R.sp]
       IN  IF R.sp = 0
           THEN R' = goto(R, R.sp, DNS_R_SWITCH) /\ UNCHANGED <<pc, ret>>
           ELSE IF F.query = NULL
           THEN r_crash /\ UNCHANGED R
           ELSE \E A \in {dns_r_glue(R, F.query)} :
                \E x \in {dns_d_expand(DNS_D_MAXNAME + 1, 12, F.query)} :
                \E R1 \in {[R EXCEPT !.stack[R.sp].answer = A]} :
                   IF A = NULL
                   THEN R' = goto(R1, R.sp, DNS_R_SWITCH) /\ UNCHANGED <<pc, ret>>
                   ELSE IF x.len = 0
                   THEN R' = R1 /\ r_return(x.error)
                   ELSE IF dns_rr_foreach(A, {"AN"}, dns_rr_type(12, F.query), x.dst) # <<>>
                   THEN R' = goto(R1, R.sp, DNS_R_FINISH) /\ UNCHANGED <<pc, ret>>
                   ELSE \E cn \in {dns_rr_foreach(A, {"AN"}, DNS_T_CNAME, x.dst)} :
                           IF cn # <<>>
                           THEN /\ R' = goto([R1 EXCEPT !.stack[R.sp].ans_cname = Head(cn)],
                                             R.sp, DNS_R_CNAME0_A)
                                /\ UNCHANGED <<pc, ret>>
                           ELSE R' = goto(R1, R.sp, DNS_R_SWITCH) /\ UNCHANGED <<pc, ret>>
    /\ UNCHANGED <<so, net, gh>>
    /\ UNCHANGED codec

\* the entries of lookup at or after which that name a source
switch_next(lookup, which) ==
    { k \in which..(LookupSize - 1) : lookup[k + 1] \in {98, 102} }

r_SWITCH ==
    /\ RStep(DNS_R_SWITCH)
    /\ LET F == R.stack[R.sp]
           S == switch_next(R.resconf.lookup, F.which)
           k == CHOOSE k \in S : \A j \in S : k <= j
       IN  IF S = {}
           THEN R' = goto([R EXCEPT !.stack[R.sp].which = Max(F.which, LookupSize)],
                          R.sp, DNS_R_SERVFAIL)
           ELSE R' = goto([R EXCEPT !.stack[R.sp].which = k + 1], R.sp,
                          IF R.resconf.lookup[k + 1] = 98 THEN DNS_R_BIND ELSE DNS_R_FILE)
    /\ UNCHANGED <<so, net, pc, ret, gh>>
    /\ UNCHANGED codec

\* the while loop of the FILE case at frame 0
RECURSIVE file_loop(_, _)
file_loop(r, state) ==
    The({ IF Len(c.dst) = 0 THEN [error |-> "0", answer |-> NULL, search |-> c.state]
          ELSE The({ IF q.error # "0"
                     THEN [error |-> q.error, answer |-> NULL, search |-> c.state]
                     ELSE The({ IF h.P = NULL
                                THEN [error |-> h.error, answer |-> NULL, search |-> c.state]
                                ELSE IF dns_p_count(h.P, "AN") > 0
                                THEN [error |-> "0", answer |-> h.P, search |-> c.state]
                                ELSE file_loop(r, c.state)
                                : h \in {dns_hosts_query(r.hosts, q.P)} })
                     : q \in {dns_p_push_qd(dns_p_init(DNS_P_QBUFSIZ), c.dst, r.qtype,
                                            r.qclass)} })
          : c \in {dns_resconf_search(r.qname, r.qlen, r.resconf, state)} })

r_FILE ==
    /\ RStep(DNS_R_FILE)
    /\ IF R.sp > 0
       THEN \E h \in {dns_hosts_query(R.hosts, R.stack[R.sp].query)} :
               IF h.P = NULL
               THEN R' = R /\ r_return(h.error)
               ELSE IF dns_p_count(h.P, "AN") > 0
               THEN /\ R' = goto([R EXCEPT !.stack[R.sp].answer = h.P], R.sp, DNS_R_FINISH)
                    /\ UNCHANGED <<pc, ret>>
               ELSE /\ R' = goto([R EXCEPT !.stack[R.sp].answer = NULL], R.sp, DNS_R_SWITCH)
                    /\ UNCHANGED <<pc, ret>>
       ELSE \E l \in {file_loop(R, search0)} :
               IF l.error # "0"
               THEN R' = [R EXCEPT !.search = l.search] /\ r_return(l.error)
               ELSE IF l.answer # NULL
               THEN /\ R' = goto([R EXCEPT !.search = l.search, !.stack[0].answer = l.answer],
                                 0, DNS_R_FINISH)
                    /\ UNCHANGED <<pc, ret>>
               ELSE /\ R' = goto([R EXCEPT !.search = l.search, !.stack[0].answer = NULL],
                                 0, DNS_R_SWITCH)
                    /\ UNCHANGED <<pc, ret>>
    /\ UNCHANGED <<so, net, gh>>
    /\ UNCHANGED codec

r_BIND ==
    /\ RStep(DNS_R_BIND)
    /\ IF R.sp > 0
       THEN IF R.stack[R.sp].query = NULL
            THEN r_crash /\ UNCHANGED R
            ELSE R' = goto(R, R.sp, DNS_R_HINTS) /\ UNCHANGED <<pc, ret>>
       ELSE R' = goto(R, R.sp, DNS_R_SEARCH) /\ UNCHANGED <<pc, ret>>
    /\ UNCHANGED <<so, net, gh>>
    /\ UNCHANGED codec

r_SEARCH ==
    /\ RStep(DNS_R_SEARCH)
    /\ \E c \in {dns_resconf_search(R.qname, R.qlen, R.resconf, R.search)} :
       \E P \in {set_rd(dns_p_init(DNS_P_QBUFSIZ), 1 - R.resconf.options.recurse)} :
       \E R1 \in {[R EXCEPT !.search = c.state]} :
          IF Len(c.dst) = 0
          THEN R' = goto(R1, R.sp, DNS_R_SWITCH) /\ UNCHANGED <<pc, ret, gh>>
          ELSE \E q \in {dns_p_push_qd(P, c.dst, R.qtype, R.qclass)} :
                  IF q.error # "0"
                  THEN /\ R' = [R1 EXCEPT !.stack[R.sp].query = P]
                       /\ r_return(q.error)
                       /\ UNCHANGED gh
                  ELSE /\ R' = goto([R1 EXCEPT !.stack[R.sp].query = q.P], R.sp, DNS_R_HINTS)
                       /\ gh' = [gh EXCEPT !.sub[R.sp] = 0]
                       /\ UNCHANGED <<pc, ret>>
    /\ UNCHANGED <<so, net>>
    /\ UNCHANGED codec

r_HINTS ==
    /\ RStep(DNS_R_HINTS)
    /\ \E h \in {dns_hints_query(R.hints, R.stack[R.sp].query)} :
          IF h.P = NULL
          THEN R' = [R EXCEPT !.stack[R.sp].hints = NULL] /\ r_return(h.error)
          ELSE /\ R' = goto([R EXCEPT !.stack[R.sp].hints = h.P], R.sp, DNS_R_ITERATE)
               /\ UNCHANGED <<pc, ret>>
    /\ UNCHANGED <<so, net, gh>>
    /\ UNCHANGED codec

r_ITERATE ==
    /\ RStep(DNS_R_ITERATE)
    /\ LET F == R.stack[R.sp]
           i == [dns_rr_i_init(F.hints_i) EXCEPT !.section = {"NS"}, !.type = DNS_T_NS,
                                                 !.sort = "dns_r_nameserv_cmp",
                                                 !.args0 = RecEnd(F.hints)]
       IN  R' = goto([R EXCEPT !.stack[R.sp].hints_i = i], R.sp, DNS_R_FOREACH_NS)
    /\ UNCHANGED <<so, net, pc, ret, gh>>
    /\ UNCHANGED codec

r_FOREACH_NS ==
    /\ RStep(DNS_R_FOREACH_NS)
    /\ \E g \in {dns_rr_grep(dns_rr_i_save(R.stack[R.sp].hints_i), R.stack[R.sp].hints)} :
          IF g.n = 0
          THEN R' = goto([R EXCEPT !.stack[R.sp].hints_i = g.i], R.sp, DNS_R_SWITCH)
          ELSE R' = goto([R EXCEPT !.stack[R.sp].hints_i = g.i,
                                   !.stack[R.sp].hints_ns = g.rr,
                                   !.stack[R.sp].hints_j = dns_rr_i_init(@)],
                         R.sp, DNS_R_FOREACH_A)
    /\ UNCHANGED <<so, net, pc, ret, gh>>
    /\ UNCHANGED codec

never_endof(r) == FALSE

\* &F[1] >= endof(R->stack)
endof_stack(r) == r.sp + 1 >= DNS_R_MAXDEPTH

\* a sub-frame for the question (host, type, class): the frame above sp is
\* reset, given the query Q, and becomes the current frame
r_push(r, Q) ==
    [dns_r_reset_frame(r, r.sp + 1) EXCEPT !.stack[r.sp + 1].query = Q,
                                           !.stack[r.sp].state = @ + 1,
                                           !.sp = @ + 1]

\* dns_ns_parse(), dns_cname_parse() and dns_mx_parse() of a record of the model
rd_host(P, idx) == rr_at(P, idx).rd.host

\* dns_ns_parse() of the NS record idx: dns_d_expand() gives the length 0 and
\* its error for RDATA it cannot read, which a record of the model holds as
\* the empty host; a name that fills the buffer is illegal
rr_ns_parse(P, idx) ==
    The({ [error |-> IF Len(h) = 0 \/ Len(h) >= DNS_D_MAXNAME + 1 THEN "DNS_EILLEGAL"
                     ELSE "0",
           host |-> h]
          : h \in {rd_host(P, idx)} })

r_RESOLV0_NS ==
    /\ RStep(DNS_R_RESOLV0_NS)
    /\ IF endof_stack(R)
       THEN R' = goto(R, R.sp, DNS_R_FOREACH_NS) /\ UNCHANGED <<pc, ret, gh>>
       ELSE \E ns \in {rr_ns_parse(R.stack[R.sp].hints, R.stack[R.sp].hints_ns)} :
            \E host \in {ns.host} :
            \E q \in {dns_p_push_qd(dns_p_init(DNS_P_QBUFSIZ), SubSeq(host, 1, strlen(host)),
                                    DNS_T_A, DNS_C_IN)} :
               IF ns.error # "0" \/ q.error # "0"
               THEN /\ R' = [dns_r_reset_frame(R, R.sp + 1) EXCEPT
                                !.stack[R.sp + 1].query = dns_p_init(DNS_P_QBUFSIZ)]
                    /\ r_return(IF ns.error # "0" THEN ns.error ELSE q.error)
                    /\ UNCHANGED gh
               ELSE /\ R' = r_push(R, q.P)
                    /\ gh' = [gh EXCEPT !.sub[R.sp + 1] = 0]
                    /\ UNCHANGED <<pc, ret>>
    /\ UNCHANGED <<so, net>>
    /\ UNCHANGED codec

r_RESOLV1_NS ==
    /\ RStep(DNS_R_RESOLV1_NS)
    /\ LET F1 == R.stack[R.sp + 1]
       IN  \E x \in {dns_d_expand(DNS_D_MAXNAME + 1, 12, F1.query)} :
              IF x.len = 0
              THEN R' = R /\ r_return(x.error)
              ELSE IF F1.answer = NULL
              THEN r_crash /\ UNCHANGED R
              ELSE \E as \in {dns_rr_foreach(F1.answer, DNS_S_ALL \ {"QD"}, DNS_T_A, x.dst)} :
                      /\ R' = goto([R EXCEPT
                                       !.stack[R.sp].hints = copy_all(@, as, "AR", F1.answer),
                                       !.stack[R.sp].hints_i =
                                           IF as = <<>> THEN @ ELSE dns_rr_i_rewind(@)],
                                    R.sp, DNS_R_FOREACH_NS)
                      /\ UNCHANGED <<pc, ret>>
    /\ UNCHANGED <<so, net, gh>>
    /\ UNCHANGED codec

\* dns_so_mkqid()
RQID == 1

\* the FOREACH_A case; after a successful dns_so_submit() it falls through
\* into QUERY_A, where no time has elapsed yet and dns_so_check() is called;
\* the count of the submissions of a frame stops at MaxSub
r_FOREACH_A ==
    /\ RStep(DNS_R_FOREACH_A)
    /\ LET F == R.stack[R.sp]
           ns == rr_ns_parse(F.hints, F.hints_ns)
           j == [F.hints_j EXCEPT !.name = ns.host, !.type = DNS_T_A,
                                  !.section = DNS_S_ALL \ {"QD"}]
       IN  \E g \in {dns_rr_grep(j, F.hints)} :
           \E R1 \in {[R EXCEPT !.stack[R.sp].hints_j = g.i]} :
              IF ns.error # "0"
              THEN /\ r_return(ns.error)
                   /\ UNCHANGED <<R, so, net, gh>>
              ELSE IF g.n = 0
              THEN /\ R' = goto(R1, R.sp, IF g.i.state.count = 0 THEN DNS_R_RESOLV0_NS
                                          ELSE DNS_R_FOREACH_NS)
                   /\ UNCHANGED <<so, net, pc, ret, gh>>
              ELSE \E s \in {dns_so_submit(so, F.query, RQID)} :
                      /\ so' = s.so
                      /\ net' = net_close(net, so.tcp)
                      /\ IF s.error # "0"
                         THEN /\ R' = R1
                              /\ r_return(s.error)
                              /\ UNCHANGED gh
                         ELSE /\ R' = goto([R1 EXCEPT !.stack[R.sp].query = s.Q], R.sp,
                                           DNS_R_QUERY_A)
                              /\ pc' = [pc EXCEPT !.r = "so", !.so = "check"]
                              /\ gh' = [gh EXCEPT !.sub[R.sp] = IF @ < MaxSub THEN @ + 1 ELSE @,
                                                   !.query = s.Q]
                              /\ UNCHANGED ret
    /\ UNCHANGED codec

\* QUERY_A entered by a later dns_r_check(): the query has timed out, or
\* dns_so_check() is called
r_QUERY_A ==
    /\ RStep(DNS_R_QUERY_A)
    /\ \/ /\ gh.timeouts < MaxTimeouts
          /\ R' = goto(R, R.sp, DNS_R_FOREACH_A)
          /\ gh' = [gh EXCEPT !.timeouts = @ + 1]
          /\ UNCHANGED pc
       \/ /\ pc' = [pc EXCEPT !.r = "so", !.so = "check"]
          /\ UNCHANGED <<R, gh>>
    /\ UNCHANGED <<so, net, ret>>
    /\ UNCHANGED codec

\* QUERY_A from the return of dns_so_check() on
r_QUERY_A_ret_ns_first ==
    /\ pc.r = "so"
    /\ pc.so = "idle"
    /\ LET F == R.stack[R.sp]
           go(r, i) == /\ R' = goto(r, R.sp, i)
                       /\ pc' = [pc EXCEPT !.r = "exec"]
                       /\ UNCHANGED ret
       IN  IF ret.so # "0"
           THEN /\ r_return(ret.so)
                /\ UNCHANGED <<R, so>>
           ELSE \E f \in {dns_so_fetch(so)} :
                \E R1 \in {[R EXCEPT !.stack[R.sp].answer = f.answer]} :
                   /\ so' = f.so
                   /\ IF f.answer = NULL
                      THEN R' = R1 /\ r_return(IF f.error = "unset" THEN "0" ELSE f.error)
                      ELSE IF R.resconf.options.recurse = 0 THEN go(R1, DNS_R_FINISH)
                      ELSE \E rr \in {dns_rr_parse(12, F.query)} :
                           \E x \in {dns_d_expand(DNS_D_MAXNAME + 1, rr.dn.p, F.query)} :
                           \E cn \in {dns_rr_foreach(f.answer, {"AN"}, DNS_T_CNAME, x.dst)} :
                              IF rr.error # "0" THEN R' = R1 /\ r_return(rr.error)
                              ELSE IF x.len = 0 THEN R' = R1 /\ r_return(x.error)
                              ELSE IF dns_rr_foreach(f.answer, {"AN"}, rr.type, x.dst) # <<>>
                              THEN go(R1, DNS_R_FINISH)
                              ELSE IF dns_rr_foreach(f.answer, {"NS"}, DNS_T_NS, NULL) # <<>>
                              THEN go([R EXCEPT !.stack[R.sp].hints = f.answer,
                                                !.stack[R.sp].answer = NULL], DNS_R_ITERATE)
                              ELSE IF cn # <<>>
                              THEN go([R1 EXCEPT !.stack[R.sp].ans_cname = Head(cn)],
                                      DNS_R_CNAME0_A)
                              ELSE IF hdr_aa(f.answer) = 1 THEN go(R1, DNS_R_FINISH)
                              ELSE go(R1, DNS_R_FOREACH_A)
    /\ UNCHANGED <<net, gh>>
    /\ UNCHANGED codec

r_QUERY_A_ret ==
    /\ pc.r = "so"
    /\ pc.so = "idle"
    /\ LET F == R.stack[R.sp]
           go(r, i) == /\ R' = goto(r, R.sp, i)
                       /\ pc' = [pc EXCEPT !.r = "exec"]
                       /\ UNCHANGED ret
       IN  IF ret.so # "0"
           THEN /\ r_return(ret.so)
                /\ UNCHANGED <<R, so>>
           ELSE \E f \in {dns_so_fetch(so)} :
                \E R1 \in {[R EXCEPT !.stack[R.sp].answer = f.answer]} :
                   /\ so' = f.so
                   /\ IF f.answer = NULL
                      THEN R' = R1 /\ r_return(IF f.error = "unset" THEN "0" ELSE f.error)
                      ELSE IF R.resconf.options.recurse = 0 THEN go(R1, DNS_R_FINISH)
                      ELSE \E rr \in {dns_rr_parse(12, F.query)} :
                           \E x \in {dns_d_expand(DNS_D_MAXNAME + 1, rr.dn.p, F.query)} :
                           \E cn \in {dns_rr_foreach(f.answer, {"AN"}, DNS_T_CNAME, x.dst)} :
                              IF rr.error # "0" THEN R' = R1 /\ r_return(rr.error)
                              ELSE IF x.len = 0 THEN R' = R1 /\ r_return(x.error)
                              ELSE IF dns_rr_foreach(f.answer, {"AN"}, rr.type, x.dst) # <<>>
                              THEN go(R1, DNS_R_FINISH)
                              ELSE IF cn # <<>>
                              THEN go([R1 EXCEPT !.stack[R.sp].ans_cname = Head(cn)],
                                      DNS_R_CNAME0_A)
                              ELSE IF dns_rr_foreach(f.answer, {"NS"}, DNS_T_NS, NULL) # <<>>
                              THEN go([R EXCEPT !.stack[R.sp].hints = f.answer,
                                                !.stack[R.sp].answer = NULL], DNS_R_ITERATE)
                              ELSE IF hdr_aa(f.answer) = 1 THEN go(R1, DNS_R_FINISH)
                              ELSE go(R1, DNS_R_FOREACH_A)
    /\ UNCHANGED <<net, gh>>
    /\ UNCHANGED codec

r_CNAME0_A ==
    /\ RStep(DNS_R_CNAME0_A)
    /\ IF endof_stack(R)
       THEN R' = goto(R, R.sp, DNS_R_FINISH) /\ UNCHANGED <<pc, ret, gh>>
       ELSE \E host \in {rd_host(R.stack[R.sp].answer, R.stack[R.sp].ans_cname)} :
            \E q \in {dns_p_push_qd(dns_p_init(DNS_P_QBUFSIZ), SubSeq(host, 1, strlen(host)),
                                    dns_rr_type(12, R.stack[R.sp].query), DNS_C_IN)} :
               IF q.error # "0"
               THEN /\ R' = [dns_r_reset_frame(R, R.sp + 1) EXCEPT
                                !.stack[R.sp + 1].query = dns_p_init(DNS_P_QBUFSIZ)]
                    /\ r_return(q.error)
                    /\ UNCHANGED gh
               ELSE /\ R' = r_push(R, q.P)
                    /\ gh' = [gh EXCEPT !.sub[R.sp + 1] = 0]
                    /\ UNCHANGED <<pc, ret>>
    /\ UNCHANGED <<so, net>>
    /\ UNCHANGED codec

r_CNAME1_A ==
    /\ RStep(DNS_R_CNAME1_A)
    /\ LET F == R.stack[R.sp]
           F1 == R.stack[R.sp + 1]
       IN  IF F.answer = NULL \/ F1.answer = NULL
           THEN r_crash /\ UNCHANGED R
           ELSE /\ R' = goto([R EXCEPT !.stack[R.sp].answer =
                                           dns_r_merge(F.answer, F1.answer)],
                             R.sp, DNS_R_FINISH)
                /\ UNCHANGED <<pc, ret>>
    /\ UNCHANGED <<so, net, gh>>
    /\ UNCHANGED codec

\* assert(e) that fails: abort(), or nothing in a build with NDEBUG
AssertOutcomes == {"abort", "NDEBUG"}

r_FINISH ==
    /\ RStep(DNS_R_FINISH)
    /\ LET F == R.stack[R.sp]
       IN  IF R.resconf.options.smart = 0 \/ R.sp > 0
           THEN R' = goto(R, R.sp, DNS_R_DONE)
           ELSE R' = goto([R EXCEPT !.smart = dns_rr_i_init([@ EXCEPT !.section = {"AN"},
                                                                     !.type = R.qtype])],
                          R.sp, DNS_R_SMART0_A)
    /\ UNCHANGED <<so, net, pc, ret, gh>>
    /\ UNCHANGED codec

\* the while loop of the SMART0_A case: the next record of the answer that
\* names a host (NS, MX or SRV), skipping the others
RECURSIVE smart_loop(_, _)
smart_loop(i, P) ==
    The({ IF g.n = 0 THEN [n |-> 0, rr |-> 0, i |-> g.i]
          ELSE IF rr_at(P, g.rr).type \in {DNS_T_NS, DNS_T_MX, DNS_T_SRV} THEN g
          ELSE smart_loop(g.i, P)
          : g \in {dns_rr_grep(i, P)} })

\* rd.ns.host, rd.mx.host or rd.srv.target of the record the loop stopped at
smart_host(P, idx) ==
    IF rr_at(P, idx).type = DNS_T_SRV THEN rr_at(P, idx).rd.target ELSE rd_host(P, idx)

r_SMART0_A ==
    /\ RStep(DNS_R_SMART0_A)
    /\ \E l \in {smart_loop(R.smart, R.stack[R.sp].answer)} :
       \E R1 \in {[R EXCEPT !.smart = l.i]} :
          IF l.n > 0
          THEN \E q \in {dns_r_mkquery(R, smart_host(R.stack[R.sp].answer, l.rr),
                                       DNS_T_A, DNS_C_IN)} :
                  IF q.P = NULL
                  THEN /\ R' = dns_r_reset_frame(R1, R.sp + 1)
                       /\ r_return(q.error)
                       /\ UNCHANGED gh
                  ELSE /\ R' = r_push(R1, q.P)
                       /\ gh' = [gh EXCEPT !.sub[R.sp + 1] = 0]
                       /\ UNCHANGED <<pc, ret>>
          ELSE IF R.qtype = DNS_T_MX /\ l.i.state.count = 0
          THEN \E qa \in {dns_r_mkquery(R, R.qname, DNS_T_A, DNS_C_IN)} :
                  IF qa.P = NULL
                  THEN /\ R' = dns_r_reset_frame(R1, R.sp + 1)
                       /\ r_return(qa.error)
                       /\ UNCHANGED gh
                  ELSE /\ R' = r_push([R1 EXCEPT !.smart.state.count = @ + 1], qa.P)
                       /\ gh' = [gh EXCEPT !.sub[R.sp + 1] = 0]
                       /\ UNCHANGED <<pc, ret>>
          ELSE R' = goto(R1, R.sp, DNS_R_DONE) /\ UNCHANGED <<pc, ret, gh>>
    /\ UNCHANGED <<so, net>>
    /\ UNCHANGED codec

\* the loop of the SMART1_A case: the A records of the sub-answer A1 that P
\* does not hold yet, appended to P as additional records
RECURSIVE smart_copy(_, _, _)
smart_copy(P, idxs, A1) ==
    IF idxs = <<>> THEN P
    ELSE smart_copy(IF dns_rr_exists(Head(idxs), "AR", A1, P) THEN P
                    ELSE dns_rr_copy(P, Head(idxs), "AR", A1).P,
                    Tail(idxs), A1)

\* SMART1_A without the test of dns_rr_exists()
r_SMART1_A_all ==
    /\ RStep(DNS_R_SMART1_A)
    /\ LET F1 == R.stack[R.sp + 1]
       IN  IF F1.answer = NULL
           THEN r_crash /\ UNCHANGED R
           ELSE /\ R' = goto([R EXCEPT !.stack[R.sp].answer =
                                 copy_all(@, dns_rr_foreach(F1.answer, {"AN"}, DNS_T_A, NULL),
                                          "AR", F1.answer)],
                             R.sp, DNS_R_SMART0_A)
                /\ UNCHANGED <<pc, ret>>
    /\ UNCHANGED <<so, net, gh>>
    /\ UNCHANGED codec

r_SMART1_A ==
    /\ RStep(DNS_R_SMART1_A)
    /\ LET F1 == R.stack[R.sp + 1]
       IN  IF F1.answer = NULL
           THEN r_crash /\ UNCHANGED R
           ELSE /\ R' = goto([R EXCEPT !.stack[R.sp].answer =
                                 smart_copy(@, dns_rr_foreach(F1.answer, {"AN"}, DNS_T_A, NULL),
                                            F1.answer)],
                             R.sp, DNS_R_SMART0_A)
                /\ UNCHANGED <<pc, ret>>
    /\ UNCHANGED <<so, net, gh>>
    /\ UNCHANGED codec

r_DONE ==
    /\ RStep(DNS_R_DONE)
    /\ \E o \in (IF R.stack[R.sp].answer = NULL THEN AssertOutcomes ELSE {"ok"}) :
          IF o = "abort"
          THEN r_crash /\ UNCHANGED R
          ELSE IF R.sp > 0
          THEN R' = goto([R EXCEPT !.sp = @ - 1], R.sp - 1, R.stack[R.sp - 1].state)
               /\ UNCHANGED <<pc, ret>>
          ELSE r_return("0") /\ UNCHANGED R
    /\ UNCHANGED <<so, net, gh>>
    /\ UNCHANGED codec

r_SERVFAIL ==
    /\ RStep(DNS_R_SERVFAIL)
    /\ LET F == R.stack[R.sp]
       IN  IF F.query = NULL
           THEN r_crash /\ UNCHANGED R
           ELSE /\ R' = goto([R EXCEPT !.stack[R.sp].answer =
                                 set_rcode(p_dup(F.query), DNS_RC_SERVFAIL)],
                             R.sp, DNS_R_DONE)
                /\ UNCHANGED <<pc, ret>>
    /\ UNCHANGED <<so, net, gh>>
    /\ UNCHANGED codec

(***************************************************************************)
(* The resolver with its caller and the name servers.  The default: label  *)
(* of dns_r_exec() and that of dns_so_check() are not steps here: no       *)
(* frame leaves the states of the enum, and dns_r_exec() calls             *)
(* dns_so_check() after dns_so_submit() only.                              *)
(***************************************************************************)
\* "a", looked up for its address or, by a smart resolver, for its mail
\* exchangers or, by a recursive resolver, for all its records
RQueries ==
    { [qname |-> <<97>>, qtype |-> DNS_T_A], [qname |-> <<97>>, qtype |-> DNS_T_MX],
      [qname |-> <<97>>, qtype |-> DNS_T_ALL] }

RSubmit ==
    /\ pc.r = "idle"
    /\ gh.submits < MaxSubmit
    /\ \E q \in RQueries :
          /\ q.qtype = DNS_T_MX => R.resconf.options.smart = 1
          /\ q.qtype = DNS_T_ALL => R.resconf.options.recurse = 1
          /\ R' = [dns_r_reset(R) EXCEPT !.qname = q.qname, !.qlen = strlen(q.qname),
                                      !.qtype = q.qtype, !.qclass = DNS_C_IN]
    /\ so' = dns_so_reset(so)
    /\ net' = net_close(net, so.tcp)
    /\ ret' = ret_init
    /\ gh' = [gh EXCEPT !.submits = @ + 1, !.query = NULL, !.sub = [i \in 0..7 |-> 0]]
    /\ UNCHANGED pc
    /\ UNCHANGED codec

RCheck ==
    /\ pc.r = "idle"
    /\ gh.submits > 0
    /\ pc' = [pc EXCEPT !.r = "exec"]
    /\ ret' = ret_init
    /\ UNCHANGED <<so, net, R, gh>>
    /\ UNCHANGED codec

\* frame 0 is DONE and holds an answer
Ready(r) == r.sp = 0 /\ r.stack[0].state = DNS_R_DONE /\ r.stack[0].answer # NULL

RFetch ==
    /\ pc.r = "idle"
    /\ IF R.stack[0].state # DNS_R_DONE
       THEN /\ ret' = [ret_init EXCEPT !.fetch = "null", !.ferr = "DNS_EUNKNOWN"]
            /\ gh' = [gh EXCEPT !.fetched = NULL, !.fready = Ready(R)]
            /\ UNCHANGED R
       ELSE /\ ret' = [ret_init EXCEPT !.fetch = IF R.stack[0].answer = NULL THEN "null"
                                                ELSE "packet"]
            /\ gh' = [gh EXCEPT !.fetched = R.stack[0].answer, !.fready = Ready(R)]
            /\ R' = [R EXCEPT !.stack[0].answer = NULL]
    /\ UNCHANGED <<so, net, pc>>
    /\ UNCHANGED codec

RReset ==
    /\ pc.r = "idle"
    /\ R.qlen > 0
    /\ R' = dns_r_reset(R)
    /\ so' = dns_so_reset(so)
    /\ net' = net_close(net, so.tcp)
    /\ ret' = ret_init
    /\ gh' = [gh EXCEPT !.query = NULL, !.sub = [i \in 0..7 |-> 0]]
    /\ UNCHANGED pc
    /\ UNCHANGED codec

\* "a.", "m.", "n." and "x."
NameA == <<97, 46>>

NameM == <<109, 46>>

NameN == <<110, 46>>

NameX == <<120, 46>>

\* the names "c." to "j.", each the alias of the next
Alias(k) == <<98 + k, 46>>

ChainLen == DNS_R_MAXDEPTH

\* the canonical name the servers give for a name: "c.", or the next alias
AliasOf(name) ==
    IF \E k \in 1..ChainLen : name = Alias(k)
    THEN Alias(1 + CHOOSE k \in 1..ChainLen : name = Alias(k))
    ELSE Alias(1)

\* a response to the query Q: its header with QR, AA and TC and the counts
\* of the records an, ns and ar, its question, and the records
Reply(Q, aa, tc, an, ns, ar) ==
    LET d == SubSeq(Q.data, 1, Q.end)
        f == Patch(d, 2, <<(d[3] % 2) + 128 + 4 * aa + 2 * tc>>)
    IN  [data |-> Patch(f, 6, <<0, Len(an), 0, Len(ns), 0, Len(ar)>>),
         rrs |-> an \o ns \o ar]

Templates == {"ANS", "CNAME", "CHAIN", "NS", "NSBARE", "NODATA", "LAME", "TC",
              "ANSCNAME", "ANSNS", "CNAMENS", "NSAA", "NSBAD"}

\* what a name server can answer to the query Q: the records asked for (for
\* MX: two exchangers, the alias of the first and the address of the
\* second), an alias, a chain of aliases as long
\* as the stack, a delegation with or without glue, nothing with or without
\* authority, a truncated answer; and the mixed ones: the records asked for
\* behind an alias of the same name, the records asked for with the name
\* servers of the zone, an alias with a delegation, a delegation with AA, and
\* a delegation whose NS record has RDATA that is no name
Response(t, Q) ==
    LET qn == Question(Q).qname
        qt == Question(Q).qtype
        a(name, addr) == [name |-> name, type |-> DNS_T_A, class |-> DNS_C_IN,
                          rd |-> [addr |-> addr]]
        cname(name, host) == [name |-> name, type |-> DNS_T_CNAME, class |-> DNS_C_IN,
                              rd |-> [host |-> host]]
        nsrr == [name |-> <<46>>, type |-> DNS_T_NS, class |-> DNS_C_IN,
                 rd |-> [host |-> NameN]]
        mx(pref, host) == [name |-> qn, type |-> DNS_T_MX, class |-> DNS_C_IN,
                           rd |-> [preference |-> pref, host |-> host]]
    IN  CASE t = "ANS" -> IF qt = DNS_T_MX
                          THEN Reply(Q, 1, 0,
                                     <<mx(10, NameM), cname(NameM, Alias(1)), mx(20, NameN)>>,
                                     <<>>, <<a(NameN, 1)>>)
                          ELSE Reply(Q, 1, 0, <<a(qn, 1)>>, <<>>, <<>>)
          [] t = "CNAME" -> Reply(Q, 1, 0, <<cname(qn, AliasOf(qn))>>, <<>>, <<>>)
          [] t = "CHAIN" ->
                Reply(Q, 1, 0,
                      <<>> \o [k \in 1..ChainLen |->
                          cname(IF k = 1 THEN qn ELSE Alias(k - 1), Alias(k))],
                      <<>>, <<>>)
          [] t = "NS" -> Reply(Q, 0, 0, <<>>, <<nsrr>>, <<a(NameN, 2)>>)
          [] t = "NSBARE" -> Reply(Q, 0, 0, <<>>, <<nsrr>>, <<>>)
          [] t = "NODATA" -> Reply(Q, 1, 0, <<>>, <<>>, <<>>)
          [] t = "LAME" -> Reply(Q, 0, 0, <<>>, <<>>, <<>>)
          [] t = "TC" -> Reply(Q, 0, 1, <<>>, <<>>, <<>>)
          [] t = "ANSCNAME" ->
                Reply(Q, 1, 0, <<cname(qn, AliasOf(qn)), a(qn, 1)>>, <<>>, <<>>)
          [] t = "ANSNS" -> Reply(Q, 1, 0, <<a(qn, 1)>>, <<nsrr>>, <<a(NameN, 2)>>)
          [] t = "CNAMENS" ->
                Reply(Q, 0, 0, <<cname(qn, AliasOf(qn))>>, <<nsrr>>, <<a(NameN, 2)>>)
          [] t = "NSAA" -> Reply(Q, 1, 0, <<>>, <<nsrr>>, <<>>)
          [] t = "NSBAD" ->
                Reply(Q, 0, 0, <<>>, <<[nsrr EXCEPT !.rd.host = <<>>]>>, <<a(NameN, 2)>>)

\* the server answers the datagram it was sent
RNetUdp ==
    /\ so.state = DNS_SO_UDP_RECV
    /\ net.udp_rx = <<>>
    /\ gh.resp < MaxResp
    /\ \E t \in Templates :
          net' = [net EXCEPT !.udp_rx = <<Response(t, so.query)>>]
    /\ gh' = [gh EXCEPT !.resp = @ + 1]
    /\ UNCHANGED <<so, R, pc, ret>>
    /\ UNCHANGED codec

\* the server answers on the connection: the message behind its length
RNetTcp ==
    /\ so.state = DNS_SO_TCP_RECV
    /\ net.conn = "up"
    /\ ~net.replied
    /\ gh.resp < MaxResp
    /\ \E t \in {"ANS", "NODATA"} :
          LET m == Response(t, so.query)
          IN  /\ net' = [net EXCEPT !.replied = TRUE, !.tcp_rrs = m.rrs,
                                    !.tcp_rx = <<Len(m.data) \div 256, Len(m.data) % 256>>
                                                 \o m.data]
              /\ gh' = [gh EXCEPT !.resp = @ + 1, !.tcp_msg = m.data]
    /\ UNCHANGED <<so, R, pc, ret>>
    /\ UNCHANGED codec

\* resolv.conf: lookup order, search list "x.", the default options
Resconf(lookup, recurse, smart) ==
    [lookup |-> lookup, search |-> <<NameX>>,
     options |-> [ndots |-> 1, timeout |-> 5, attempts |-> 2, recurse |-> recurse,
                  smart |-> smart]]

\* the lookup array, zero behind its entries: "bf", the default, and "fb",
\* "ff" and "bb" as the lookup lines "file bind", "file" and "bind bind" of
\* resolv.conf leave it
LookupBF == <<98, 102>> \o Zeros(LookupSize - 2)

LookupFB == <<102, 98>> \o Zeros(LookupSize - 2)

LookupFF == <<102, 102>> \o Zeros(LookupSize - 2)

LookupBB == <<98, 98>> \o Zeros(LookupSize - 2)

\* /etc/hosts with an address for "a."
HostsA == <<[af |-> "AF_INET", host |-> NameA, addr |-> 9]>>

\* the name servers of resolv.conf as hints of the root zone, in the order
\* dns_hints_insert_resconf() numbers them
HintsOf(n) == <<[zone |-> <<46>>, addrs |-> <<>> \o [k \in 1..n |-> [addr |-> k, priority |-> k]]]>>

\* the set-ups of the model: a stub resolver (recurse 0) under each lookup
\* order with and without the hosts entry, one with three name servers, a
\* smart stub resolver, a recursive resolver, and one without name servers
Setups ==
    { [resconf |-> Resconf(l, 0, 0), hosts |-> h, hints |-> HintsOf(1)] :
         l \in {LookupBF, LookupFB, LookupFF, LookupBB}, h \in {<<>>, HostsA} }
    \cup { [resconf |-> Resconf(LookupBF, 0, 0), hosts |-> <<>>, hints |-> HintsOf(3)],
           [resconf |-> Resconf(LookupBF, 0, 1), hosts |-> <<>>, hints |-> HintsOf(1)],
           [resconf |-> Resconf(LookupBF, 1, 0), hosts |-> <<>>, hints |-> HintsOf(1)],
           [resconf |-> Resconf(LookupBB, 1, 0), hosts |-> <<>>, hints |-> HintsOf(0)] }

InitR ==
    /\ so = dns_so_init("ANY")
    /\ net = net_init(FALSE, 0)
    /\ \E c \in Setups : R = dns_r_open(c.resconf, c.hosts, c.hints)
    /\ pc = pc_init
    /\ ret = ret_init
    /\ gh = gh_init
    /\ pkt = NULL
    /\ prm = NULL
    /\ hist = NULL
    /\ lib = NULL

NextR ==
    \/ RSubmit \/ RCheck \/ RFetch \/ RReset
    \/ r_INIT \/ r_GLUE \/ r_SWITCH \/ r_FILE \/ r_BIND \/ r_SEARCH \/ r_HINTS
    \/ r_ITERATE \/ r_FOREACH_NS \/ r_RESOLV0_NS \/ r_RESOLV1_NS \/ r_FOREACH_A
    \/ r_QUERY_A \/ r_QUERY_A_ret \/ r_CNAME0_A \/ r_CNAME1_A \/ r_FINISH
    \/ r_SMART0_A \/ r_SMART1_A \/ r_DONE \/ r_SERVFAIL
    \/ so_UDP_INIT \/ so_UDP_CONN \/ so_UDP_SEND \/ so_UDP_RECV \/ so_UDP_DONE
    \/ so_TCP_INIT \/ so_TCP_CONN \/ so_TCP_SEND \/ so_TCP_RECV \/ so_TCP_DONE
    \/ RNetUdp \/ RNetTcp

SpecR == InitR /\ [][NextR]_vars

(***************************************************************************)
(* Claims about the resolver.                                              *)
(***************************************************************************)
\* a step of dns_r_exec() in the case X of its switch
ExecStep(X) == RStep(X) /\ <<R, pc, ret>>' # <<R, pc, ret>>

\* the step of case QUERY_A behind a 0 return of dns_so_check()
FetchStep == pc.r = "so" /\ pc.so = "idle" /\ ret.so = "0" /\ pc' # pc

\* C2: dns_r_check() returns 0 only with sp = 0 and frame 0 DONE holding an
\* answer, so that a dns_r_fetch() right after a 0 return yields a packet;
\* in every other situation dns_r_fetch() yields no packet and reports
\* DNS_EUNKNOWN.
C2_CheckFetch ==
    /\ pc.r = "idle" /\ ret.r = "0" => Ready(R)
    /\ ret.fetch = "packet" => gh.fready
    /\ ret.fetch = "null" => ~gh.fready /\ ret.ferr = "DNS_EUNKNOWN"

\* C5: a frame in SERVFAIL gets a copy of its query with RCODE 2 as its
\* answer and goes to DONE, and dns_r_check() then returns 0 at frame 0;
\* SWITCH goes through the lookup entries in order, each at most once.
C5_Servfail ==
    [][/\ ExecStep(DNS_R_SERVFAIL) =>
             /\ R.stack[R.sp].query # NULL
             /\ R'.stack[R.sp].state = DNS_R_DONE
             /\ R'.stack[R.sp].answer # NULL
             /\ hdr_rcode(R'.stack[R.sp].answer) = DNS_RC_SERVFAIL
             /\ Question(R'.stack[R.sp].answer) = Question(R.stack[R.sp].query)
       /\ ExecStep(DNS_R_DONE) /\ R.sp = 0 /\ hdr_rcode(R.stack[0].answer) = DNS_RC_SERVFAIL =>
             pc'.r = "idle" /\ ret'.r = "0"
       /\ ExecStep(DNS_R_SWITCH) =>
             /\ R'.stack[R.sp].which > R.stack[R.sp].which
             /\ \A k \in R.stack[R.sp].which..(R'.stack[R.sp].which - 2) :
                   R.resconf.lookup[k + 1] \notin {98, 102}
             /\ R'.stack[R.sp].state =
                   (IF R.resconf.lookup[R'.stack[R.sp].which] = 98 THEN DNS_R_BIND
                    ELSE IF R.resconf.lookup[R'.stack[R.sp].which] = 102 THEN DNS_R_FILE
                    ELSE DNS_R_SERVFAIL)]_vars

\* C6: with the lookup order (file, bind) frame 0 does not exhaust the
\* lookup order after a FILE step without a hit before BIND has submitted a
\* query to a name server.
C6_BindAfterFile ==
    R.resconf.lookup = LookupFB /\ R.sp = 0 /\ R.stack[0].state = DNS_R_SERVFAIL
        => gh.query # NULL

C7_Depth == R'.sp \in 0..(DNS_R_MAXDEPTH - 1)

C7_Up ==
    R'.sp > R.sp =>
       /\ R'.sp = R.sp + 1
       /\ pc.r = "exec"
       /\ R.stack[R.sp].state \in {DNS_R_RESOLV0_NS, DNS_R_CNAME0_A, DNS_R_SMART0_A}

C7_Pop == R'.sp = R.sp - 1 /\ pc.r = "exec" /\ R.stack[R.sp].state = DNS_R_DONE

\* dns_r_reset(), called by the user or by dns_r_submit(), clears the stack
C7_Reset ==
    /\ pc.r = "idle"
    /\ R'.sp = 0
    /\ \A k \in 0..(DNS_R_MAXDEPTH - 1) : R'.stack[k] = frame0

\* C7 as stated: sp stays within 0..7, increases only by 1 and only in
\* RESOLV0_NS, CNAME0_A or SMART0_A, and decreases only by 1 when a
\* sub-frame reaches DONE.
C7_Original ==
    /\ R.sp \in 0..(DNS_R_MAXDEPTH - 1)
    /\ [][C7_Depth /\ C7_Up /\ (R'.sp < R.sp => C7_Pop)]_vars

\* C7 amended: sp stays within 0..7, increases only by 1 and only in
\* RESOLV0_NS, CNAME0_A or SMART0_A, and decreases either by 1 when a
\* sub-frame reaches DONE or to 0 when dns_r_reset() clears the stack.
C7_StackDepth ==
    /\ R.sp \in 0..(DNS_R_MAXDEPTH - 1)
    /\ [][C7_Depth /\ C7_Up /\ (R'.sp < R.sp => C7_Pop \/ C7_Reset)]_vars

\* C7 witness: the stack is full and its last frame, a sub-query pushed by
\* CNAME0_A, is done
C7_Witness ==
    /\ R.sp = DNS_R_MAXDEPTH - 1
    /\ R.stack[R.sp].state = DNS_R_DONE
    /\ R.stack[R.sp - 1].state = DNS_R_CNAME1_A

\* the answer records of P hold one of the name and the type
AnHas(P, name, type) ==
    \E k \in 1..dns_p_count(P, "AN") :
        P.rrs[k].type = type /\ strcasecmp(P.rrs[k].name, name) = 0

\* the answer P to the query Q has a CNAME at the query name and no record
\* of the queried type there
CnameOnly(P, Q) ==
    /\ ~AnHas(P, Question(Q).qname, Question(Q).qtype)
    /\ AnHas(P, Question(Q).qname, DNS_T_CNAME)

Records(P) == { P.rrs[k] : k \in 1..Len(P.rrs) }

\* QUERY_A of a recursive resolver takes a verified answer with only a CNAME
\* at the query name to CNAME0_A (a query of type 0, built by check() when
\* nothing was submitted, asks for no type, and a query of type DNS_T_ALL
\* asks for all: every record matches them)
C8_Enter ==
    /\ FetchStep
    /\ R.resconf.options.recurse = 1
    /\ so.answer # NULL
    /\ Question(R.stack[R.sp].query).qtype \notin {0, DNS_T_ALL}
    /\ CnameOnly(so.answer, R.stack[R.sp].query)
    => /\ R'.stack[R.sp].state = DNS_R_CNAME0_A
       /\ R'.stack[R.sp].answer = so.answer
       /\ so.answer.rrs[R'.stack[R.sp].ans_cname].type = DNS_T_CNAME
       /\ strcasecmp(so.answer.rrs[R'.stack[R.sp].ans_cname].name,
                     Question(R.stack[R.sp].query).qname) = 0

\* CNAME0_A pushes one sub-frame for (CNAME target, original qtype, IN), or
\* at the maximum depth goes to FINISH with the answer it has
C8_Push ==
    ExecStep(DNS_R_CNAME0_A) =>
       IF R.sp < DNS_R_MAXDEPTH - 1
       THEN /\ R'.sp = R.sp + 1
            /\ R'.stack[R.sp].state = DNS_R_CNAME1_A
            /\ R'.stack[R.sp].answer = R.stack[R.sp].answer
            /\ R'.stack[R'.sp].state = DNS_R_INIT
            /\ R'.stack[R'.sp].answer = NULL
            /\ Question(R'.stack[R'.sp].query) =
                  [ok |-> TRUE,
                   qname |-> R.stack[R.sp].answer.rrs[R.stack[R.sp].ans_cname].rd.host,
                   qtype |-> Question(R.stack[R.sp].query).qtype,
                   qclass |-> DNS_C_IN]
       ELSE /\ R'.sp = R.sp
            /\ R'.stack[R.sp].state = DNS_R_FINISH
            /\ R'.stack[R.sp].answer = R.stack[R.sp].answer
            /\ pc' = pc
            /\ ret' = ret

\* CNAME1_A, entered when the sub-frame is DONE, replaces the answer by the
\* merge of the answer and the sub-frame's answer and goes to FINISH
C8_Merge ==
    /\ ExecStep(DNS_R_DONE) /\ R.sp > 0 /\ R.stack[R.sp - 1].state = DNS_R_CNAME1_A =>
          R'.sp = R.sp - 1 /\ R'.stack = R.stack
    /\ ExecStep(DNS_R_CNAME1_A) =>
          /\ R'.sp = R.sp
          /\ R'.stack[R.sp].state = DNS_R_FINISH
          /\ Question(R'.stack[R.sp].answer) = Question(R.stack[R.sp].answer)
          /\ Records(R'.stack[R.sp].answer) =
                Records(R.stack[R.sp].answer) \cup Records(R.stack[R.sp + 1].answer)
          /\ pc' = pc
          /\ ret' = ret

C9_Attempts == \A k \in 0..(DNS_R_MAXDEPTH - 1) : gh.sub[k] <= R.resconf.options.attempts

\* C10: with recurse = 0 every query handed to the transport has RD = 1, at
\* frame 0 and in every sub-frame, and the first verified response to a
\* frame's query sends the frame straight to FINISH; with recurse = 1 every
\* submitted query has RD = 0
C10_RD ==
    [][/\ gh'.query # NULL => hdr_rd(gh'.query) = 1 - R.resconf.options.recurse
       /\ FetchStep /\ so.answer # NULL /\ R.resconf.options.recurse = 0
          => R'.stack[R.sp].state = DNS_R_FINISH /\ R'.stack[R.sp].answer = so.answer]_vars

(***************************************************************************)
(* The packet codec on the bytes of the packet.  Here a packet keeps the   *)
(* whole of P->data, the bytes beyond P->end included, and P->dict.        *)
(***************************************************************************)
DictSize == 16

wire_p_init(size) ==
    [data |-> Zeros(size), end |-> 12, size |-> size, dict |-> Zeros(DictSize)]

\* the result of dns_l_expand(): the length it returns, *nxt and the label
\* as the C string left in dst (lim is sizeof label, never reached)
RECURSIVE l_expand_loop(_, _, _, _)
l_expand_loop(src, data, end, nptrs) ==
    LET invalid == [len |-> 0, nxt |-> end, label |-> <<>>]
    IN  IF src >= end THEN invalid
        ELSE LET b == data[src + 1]
                 len == b % 64
             IN  CASE b \div 64 = 0 ->
                        IF end - (src + 1) < len THEN invalid
                        ELSE [len |-> len, nxt |-> src + 1 + len,
                              label |-> SubSeq(data, src + 2, src + 1 + len)]
                   [] b \div 64 = 3 ->
                        IF nptrs + 1 > DNS_D_MAXPTRS THEN invalid
                        ELSE IF end - src < 2 THEN invalid
                        ELSE l_expand_loop(len * 256 + data[src + 2], data, end,
                                           nptrs + 1)
                   [] OTHER -> invalid

dns_l_expand(src, data, end) == l_expand_loop(src, data, end, 0)

dns_l_skip(src, data, end) ==
    IF src >= end THEN end
    ELSE LET b == data[src + 1]
             len == b % 64
         IN  IF b \div 64 = 0 /\ end - (src + 1) >= len /\ len # 0
             THEN src + 1 + len
             ELSE end

\* the first loop of dns_p_dictadd(): the index of the dictionary slot that
\* a pointer inside the name at dn refers to, or 0
RECURSIVE dictadd_scan(_, _, _)
dictadd_scan(P, dn, lp) ==
    IF lp >= P.end THEN 0
    ELSE LET lptr == (Byte(P, lp) % 64) * 256 + Byte(P, lp + 1)
             used == {i \in 1..DictSize : \A j \in 1..i : P.dict[j] # 0}
             hits == {i \in used : P.dict[i] = lptr}
         IN  IF Byte(P, lp) \div 64 = 3 /\ P.end - lp >= 2 /\ lp # dn /\ hits # {}
             THEN CHOOSE i \in hits : \A j \in hits : i <= j
             ELSE dictadd_scan(P, dn, dns_l_skip(lp, P.data, P.end))

dns_p_dictadd(P, dn) ==
    LET hit == dictadd_scan(P, dn, dn)
        free == {i \in 1..DictSize : P.dict[i] = 0}
    IN  IF hit # 0 THEN [P EXCEPT !.dict[hit] = dn]
        ELSE IF free = {} THEN P
        ELSE [P EXCEPT !.dict[CHOOSE i \in free : \A j \in free : i <= j] = dn]

(* The innermost loop of dns_d_comp(): the label in a of the new name and  *)
(* the label in b of the packet are compared and both replaced by the next *)
(* label of their chains (a.nxt is a.y, b.nxt is b.y) until one chain ends *)
(* or the labels differ.  The result is a and b as the loop leaves them.   *)
RECURSIVE comp_match(_, _, _, _, _)
comp_match(dst, lim, P, a, b) ==
    IF a.len # 0 /\ b.len # 0 /\ strcasecmp(a.label, b.label) = 0
    THEN comp_match(dst, lim, P, dns_l_expand(a.nxt, dst, lim),
                    dns_l_expand(b.nxt, P.data, P.end))
    ELSE [a |-> a, b |-> b]

(* The compression loops of dns_d_comp().  a.len and a.label are set at    *)
(* the head of the outer loop and by the innermost loop only, so every     *)
(* loop hands on the a the innermost loop left.                            *)
(* comp_label is the loop over the label at b.p of the name in one slot:   *)
(* hit says that the new name from a.p on equals the name at b.p.  seen    *)
(* holds the (b.p, a) met in this slot: one met twice is a loop without    *)
(* end.                                                                    *)
RECURSIVE comp_label(_, _, _, _, _, _, _)
comp_label(dst, lim, P, ax, a, bp, seen) ==
    The({ IF b.len = 0 THEN [hit |-> FALSE, hang |-> FALSE, bp |-> bp, a |-> a]
          ELSE IF <<bp, a.len, a.label>> \in seen
          THEN [hit |-> FALSE, hang |-> TRUE, bp |-> bp, a |-> a]
          ELSE The({ IF m.a.len = 0 /\ m.b.len = 0 /\ bp <= 16383
                     THEN [hit |-> TRUE, hang |-> FALSE, bp |-> bp, a |-> m.a]
                     ELSE comp_label(dst, lim, P, ax, m.a, b.nxt,
                                     seen \cup {<<bp, a.len, a.label>>})
                     : m \in {comp_match(dst, lim, P, [a EXCEPT !.nxt = ax], b)} })
          : b \in {dns_l_expand(bp, P.data, P.end)} })

\* the loop over the dictionary slots from slot i on
RECURSIVE comp_dict(_, _, _, _, _, _)
comp_dict(dst, lim, P, ax, a, i) ==
    IF i <= DictSize /\ P.dict[i] # 0
    THEN The({ IF r.hit \/ r.hang THEN r ELSE comp_dict(dst, lim, P, ax, r.a, i + 1)
               : r \in {comp_label(dst, lim, P, ax, a, P.dict[i], {})} })
    ELSE [hit |-> FALSE, hang |-> FALSE, bp |-> 0, a |-> a]

\* the loop over the suffix at a.p of the new name; len is dst.p
RECURSIVE comp_suffix(_, _, _, _, _)
comp_suffix(dst, lim, P, len, ap) ==
    The({ IF a.len = 0 THEN [len |-> len, dst |-> dst, hang |-> FALSE]
          ELSE The({ IF r.hang THEN [len |-> 0, dst |-> dst, hang |-> TRUE]
                     ELSE IF r.hit
                     THEN [len |-> ap + 2, hang |-> FALSE,
                           dst |-> Patch(dst, ap, <<192 + ((r.bp \div 256) % 64),
                                                    r.bp % 256>>)]
                     ELSE comp_suffix(dst, lim, P, len, a.nxt)
                     : r \in {comp_dict(dst, lim, P, a.nxt, a, 1)} })
          : a \in {dns_l_expand(ap, dst, lim)} })

\* dns_d_comp(&P->data[P->end], P->size - P->end, src, len, P, &error)
wire_d_comp(src, P) ==
    LET w == dns_d_comp(src)
        lim == P.size - P.end
        dst == Patch(SubSeq(P.data, P.end + 1, P.size), 0,
                     SubSeq(w, 1, Min(Len(w), lim)))
    IN  IF Len(w) < lim THEN comp_suffix(dst, lim, P, Len(w), 0)
        ELSE [len |-> Len(w), dst |-> dst, hang |-> FALSE]

\* error is what the call returns: a length of 0 returns an error that no
\* statement has set
dns_d_push(P, dn) ==
    LET c == wire_d_comp(dn, P)
        lim == P.size - P.end
        Q == [P EXCEPT !.data = Patch(P.data, P.end, c.dst)]
    IN  IF c.hang THEN [error |-> "hang", P |-> P]
        ELSE IF c.len = 0 THEN [error |-> "indeterminate", P |-> Q]
        ELSE IF c.len > lim THEN [error |-> "DNS_ENOBUFS", P |-> Q]
        ELSE [error |-> "0", P |-> dns_p_dictadd([Q EXCEPT !.end = P.end + c.len], P.end)]

(***************************************************************************)
(* Typed RDATA writers.  Each takes the packet with P->end behind the TTL  *)
(* and gives the value it returns and the packet it leaves.                *)
(***************************************************************************)
DNS_T_SOA == 6
DNS_T_PTR == 12
DNS_T_TXT == 16
DNS_T_AAAA == 28

\* the bytes of n in network order
U16(n) == <<(n \div 256) % 256, n % 256>>

\* an unsigned of 32 bits is kept as its four bytes, the first the highest
U32(n) == <<(n \div 16777216) % 256, (n \div 65536) % 256, (n \div 256) % 256, n % 256>>

\* 0x7fffffff & t
Mask31(t) == <<t[1] % 128, t[2], t[3], t[4]>>

\* P->data[P->end++] = b for every b of bs
Emit(P, bs) == [P EXCEPT !.data = Patch(@, P.end, bs), !.end = @ + Len(bs)]

\* P->data[at .. at + 1] = len, the RDLENGTH written last
SetLen(P, at) == [P EXCEPT !.data = Patch(@, at, U16(P.end - at - 2))]

Failed_keep(e, P, end) == [error |-> e, P |-> P]

\* the labels toolong: and error: of the writers: P->end = end, return error
Failed(e, P, end) == [error |-> e, P |-> [P EXCEPT !.end = end]]

dns_a_push(P, a) ==
    IF P.size - P.end < 6 THEN [error |-> "DNS_ENOBUFS", P |-> P]
    ELSE [error |-> "0", P |-> Emit(P, <<0, 4>> \o a.addr)]

dns_aaaa_push(P, aaaa) ==
    IF P.size - P.end < 2 + 16 THEN [error |-> "DNS_ENOBUFS", P |-> P]
    ELSE [error |-> "0", P |-> Emit(P, <<0, 16>> \o aaaa.addr)]

dns_mx_push(P, mx) ==
    IF P.size - P.end < 5 THEN [error |-> "DNS_ENOBUFS", P |-> P]
    ELSE The({ IF r.error # "0" THEN Failed(r.error, r.P, P.end)
               ELSE [error |-> "0", P |-> SetLen(r.P, P.end)]
               : r \in {dns_d_push(Emit([P EXCEPT !.end = @ + 2], U16(mx.preference)),
                                   mx.host)} })

\* dns_cname_push() and dns_ptr_push() are calls of dns_ns_push()
dns_ns_push(P, ns) ==
    IF P.size - P.end < 3 THEN [error |-> "DNS_ENOBUFS", P |-> P]
    ELSE The({ IF r.error # "0" THEN Failed(r.error, r.P, P.end)
               ELSE [error |-> "0", P |-> SetLen(r.P, P.end)]
               : r \in {dns_d_push([P EXCEPT !.end = @ + 2], ns.host)} })

\* the second loop of dns_soa_push(): the numbers ts behind the two names
RECURSIVE soa_push_ts(_, _, _)
soa_push_ts(P, ts, end) ==
    IF ts = <<>> THEN [error |-> "0", P |-> SetLen(P, end)]
    ELSE IF P.end + 4 >= P.size THEN Failed("DNS_ENOBUFS", P, end)
    ELSE soa_push_ts(Emit(P, Head(ts)), Tail(ts), end)

dns_soa_push(P, soa) ==
    LET ts == <<soa.serial, Mask31(soa.refresh), Mask31(soa.retry), Mask31(soa.expire),
                soa.minimum>>
    IN  IF P.end + 2 >= P.size THEN [error |-> "DNS_ENOBUFS", P |-> P]
        ELSE The({ IF m.error # "0" THEN Failed(m.error, m.P, P.end)
                   ELSE The({ IF r.error # "0" THEN Failed(r.error, r.P, P.end)
                              ELSE soa_push_ts(r.P, ts, P.end)
                              : r \in {dns_d_push(m.P, soa.rname)} })
                   : m \in {dns_d_push([P EXCEPT !.end = @ + 2], soa.mname)} })

\* the target is compressed with dns_d_comp(), not pushed: the dictionary
\* is left alone, and the length written is that of the target alone
dns_srv_push(P, srv) ==
    IF P.size - P.end < 2 THEN [error |-> "DNS_ENOBUFS", P |-> P]
    ELSE IF P.size - (P.end + 2) < 6 THEN [error |-> "DNS_ENOBUFS", P |-> P]
    ELSE The({ The({ IF c.hang THEN Failed("hang", Q, P.end)
                     ELSE IF c.len = 0
                     THEN Failed("indeterminate",
                                 [Q EXCEPT !.data = Patch(@, Q.end, c.dst)], P.end)
                     ELSE IF Q.size - Q.end < c.len \/ c.len > 65535
                     THEN Failed("DNS_ENOBUFS",
                                 [Q EXCEPT !.data = Patch(@, Q.end, c.dst)], P.end)
                     ELSE [error |-> "0",
                           P |-> [Q EXCEPT !.end = @ + c.len,
                                           !.data = Patch(Patch(@, Q.end, c.dst),
                                                          P.end, U16(c.len))]]
                     : c \in {wire_d_comp(srv.target, Q)} })
               : Q \in {Emit([P EXCEPT !.end = @ + 2],
                             U16(srv.priority) \o U16(srv.weight) \o U16(srv.port))} })

\* the loop of dns_txt_push(): data holds the bytes written so far, p is
\* dst.p and src the text still to write
RECURSIVE txt_push_loop(_, _, _)
txt_push_loop(P, p, src) ==
    LET n == Len(src) % 256
    IN  IF src = <<>> THEN [error |-> "0", P |-> [P EXCEPT !.end = p]]
        ELSE IF p >= P.size THEN [error |-> "DNS_ENOBUFS", P |-> P]
        ELSE IF P.size - (p + 1) < n
        THEN [error |-> "DNS_ENOBUFS", P |-> [P EXCEPT !.data = Patch(@, p, <<n>>)]]
        ELSE txt_push_loop([P EXCEPT !.data = Patch(@, p, <<n>> \o SubSeq(src, 1, n))],
                           p + 1 + n, SubSeq(src, n + 1, Len(src)))

dns_txt_push(P, txt) ==
    IF P.size - P.end < 2 THEN [error |-> "DNS_ENOBUFS", P |-> P]
    ELSE txt_push_loop([P EXCEPT !.data =
                            Patch(@, P.end, U16(Len(txt.data) + 1 + Len(txt.data) \div 256))],
                       P.end + 2, txt.data)

dns_any_push(P, any, type) ==
    CASE type = DNS_T_A -> dns_a_push(P, any)
      [] type = DNS_T_AAAA -> dns_aaaa_push(P, any)
      [] type = DNS_T_MX -> dns_mx_push(P, any)
      [] type \in {DNS_T_NS, DNS_T_CNAME, DNS_T_PTR} -> dns_ns_push(P, any)
      [] type = DNS_T_SOA -> dns_soa_push(P, any)
      [] type = DNS_T_SRV -> dns_srv_push(P, any)
      [] type = DNS_T_TXT -> dns_txt_push(P, any)
      [] OTHER ->
            IF P.size - P.end < Len(any.data) + 2 THEN [error |-> "DNS_ENOBUFS", P |-> P]
            ELSE [error |-> "0", P |-> Emit(P, U16(Len(any.data)) \o any.data)]

\* dns_p_push(P, section, dn, dnlen, type, class, ttl, any) on the bytes
wire_p_push(P, section, dn, type, class, ttl, any) ==
    The({ IF d.error # "0" THEN Failed(d.error, d.P, P.end)
          ELSE IF d.P.size - d.P.end < 4 THEN Failed("DNS_ENOBUFS", d.P, P.end)
          ELSE The({ IF section = "QD" THEN [error |-> "0", P |-> inc_count(Q, "QD")]
                     ELSE IF Q.size - Q.end < 6 THEN Failed("DNS_ENOBUFS", Q, P.end)
                     ELSE The({ IF r.error # "0" THEN Failed(r.error, r.P, P.end)
                                ELSE [error |-> "0",
                                      P |-> IF section \in {"AN", "NS", "AR"}
                                            THEN inc_count(r.P, section) ELSE r.P]
                                : r \in {dns_any_push(
                                           Emit(Q, Mask31(ttl)), any, type)} })
                     : Q \in {Emit(d.P, U16(type) \o U16(class))} })
          : d \in {dns_d_push(P, dn)} })

(***************************************************************************)
(* The record parsers on the bytes.  reads is the set of the offsets of    *)
(* P->data that the routine reads itself, the reads of dns_d_skip() and    *)
(* dns_d_expand(), which stop at P->end, left out.                         *)
(***************************************************************************)
Get16(P, p) == Byte(P, p) * 256 + Byte(P, p + 1)

Get32(P, p) == SubSeq(P.data, p + 1, p + 4)

\* rr->section is written for the record at offset 12 only
wire_rr_parse(src, P) ==
    LET none == [p |-> 0, len |-> 0]
        bad(rs) == [error |-> "DNS_EILLEGAL", dn |-> none, type |-> 0, class |-> 0,
                    section |-> "unset", ttl |-> U32(0), rd |-> none, reads |-> rs]
        p == dns_d_skip(src, P)
        dn == [p |-> src, len |-> p - src]
        type == Get16(P, p)
        class == Get16(P, p + 2)
        ttl == Mask31(Get32(P, p + 4))
        rdlen == Get16(P, p + 8)
    IN  IF src >= P.end THEN bad({})
        ELSE IF P.end - p < 4 THEN bad({})
        ELSE IF src = 12
        THEN [error |-> "0", dn |-> dn, type |-> type, class |-> class,
              section |-> "QD", ttl |-> U32(0), rd |-> none, reads |-> p..p + 3]
        ELSE IF P.end - (p + 4) < 4 THEN bad(p..p + 3)
        ELSE IF P.end - (p + 8) < 2 THEN bad(p..p + 7)
        ELSE IF P.end - (p + 10) < rdlen THEN bad(p..p + 9)
        ELSE [error |-> "0", dn |-> dn, type |-> type, class |-> class,
              section |-> "unset", ttl |-> ttl,
              rd |-> [p |-> p + 10, len |-> rdlen], reads |-> p..p + 9]

dns_rr_len(rr) == IF rr.dn.p = 12 THEN rr.dn.len + 4 ELSE rr.dn.len + 4 + 4 + 2 + rr.rd.len

dns_rr_skip(src, P) ==
    The({ IF rr.error # "0" THEN P.end ELSE src + dns_rr_len(rr)
          : rr \in {wire_rr_parse(src, P)} })

\* the first loop of dns_rr_section(): the number of records before src
RECURSIVE rr_index(_, _, _)
rr_index(rp, src, P) ==
    IF rp < src /\ rp < P.end THEN 1 + rr_index(dns_rr_skip(rp, P), src, P) ELSE 0

wire_rr_section(src, P) ==
    LET index == rr_index(12, src, P)
        qd == dns_p_count(P, "QD")
        an == qd + dns_p_count(P, "AN")
        ns == an + dns_p_count(P, "NS")
        ar == ns + dns_p_count(P, "AR")
    IN  IF index < qd THEN "QD"
        ELSE IF index < an THEN "AN"
        ELSE IF index < ns THEN "NS"
        ELSE IF index < ar THEN "AR"
        ELSE "0"

\* a name read with dns_d_expand() into a buffer of DNS_D_MAXNAME + 1 bytes:
\* the error of the parser and the host
HostAt(src, P) ==
    The({ [error |-> IF e.hang THEN "hang"
                     ELSE IF e.len = 0 THEN e.error
                     ELSE IF e.len >= DNS_D_MAXNAME + 1 THEN "DNS_EILLEGAL"
                     ELSE "0",
           host |-> e.dst]
          : e \in {dns_d_expand(DNS_D_MAXNAME + 1, src, P)} })

dns_a_parse(rr, P) ==
    IF rr.rd.len # 4 THEN [error |-> "DNS_EILLEGAL", any |-> NULL, reads |-> {}]
    ELSE [error |-> "0", any |-> [addr |-> SubSeq(P.data, rr.rd.p + 1, rr.rd.p + 4)],
          reads |-> rr.rd.p..rr.rd.p + 3]

dns_aaaa_parse(rr, P) ==
    IF rr.rd.len # 16 THEN [error |-> "DNS_EILLEGAL", any |-> NULL, reads |-> {}]
    ELSE [error |-> "0", any |-> [addr |-> SubSeq(P.data, rr.rd.p + 1, rr.rd.p + 16)],
          reads |-> rr.rd.p..rr.rd.p + 15]

dns_mx_parse(rr, P) ==
    IF rr.rd.len < 3 THEN [error |-> "DNS_EILLEGAL", any |-> NULL, reads |-> {}]
    ELSE The({ [error |-> h.error, reads |-> rr.rd.p..rr.rd.p + 1,
                any |-> [preference |-> Get16(P, rr.rd.p), host |-> h.host]]
               : h \in {HostAt(rr.rd.p + 2, P)} })

\* dns_cname_parse() and dns_ptr_parse() are calls of dns_ns_parse()
dns_ns_parse(rr, P) ==
    The({ [error |-> h.error, reads |-> {}, any |-> [host |-> h.host]]
          : h \in {HostAt(rr.rd.p, P)} })

dns_soa_parse(rr, P) ==
    LET bad == [error |-> "DNS_EILLEGAL", any |-> NULL, reads |-> {}]
        r1 == dns_d_skip(rr.rd.p, P)
        r2 == dns_d_skip(r1, P)
    IN  IF rr.rd.p >= P.end THEN bad
        ELSE The({ IF m.error # "0" THEN [bad EXCEPT !.error = m.error]
                   ELSE IF r1 >= P.end THEN bad
                   ELSE The({ IF r.error # "0" THEN [bad EXCEPT !.error = r.error]
                              ELSE IF r2 >= P.end THEN bad
                              ELSE IF r2 + 20 > P.end
                              THEN [bad EXCEPT !.reads = r2..P.end - 1]
                              ELSE [error |-> "0", reads |-> r2..r2 + 19,
                                    any |-> [mname |-> m.host, rname |-> r.host,
                                             serial |-> Get32(P, r2),
                                             refresh |-> Get32(P, r2 + 4),
                                             retry |-> Get32(P, r2 + 8),
                                             expire |-> Get32(P, r2 + 12),
                                             minimum |-> Get32(P, r2 + 16)]]
                              : r \in {HostAt(r1, P)} })
                   : m \in {HostAt(rr.rd.p, P)} })

\* the six bytes at rd.p are read whatever rd.len and P->end are
dns_srv_parse(rr, P) ==
    IF P.size - P.end < 6 THEN [error |-> "DNS_EILLEGAL", any |-> NULL, reads |-> {}]
    ELSE The({ [error |-> h.error, reads |-> rr.rd.p..rr.rd.p + 5,
                any |-> [priority |-> Get16(P, rr.rd.p), weight |-> Get16(P, rr.rd.p + 2),
                         port |-> Get16(P, rr.rd.p + 4), target |-> h.host]]
               : h \in {HostAt(rr.rd.p + 6, P)} })

\* the loop of dns_txt_parse() from src.p to src.end; size is txt->size
RECURSIVE txt_parse_loop(_, _, _, _, _, _)
txt_parse_loop(P, p, end, dst, size, reads) ==
    LET n == Byte(P, p)
    IN  IF p >= end THEN [error |-> "0", any |-> [data |-> dst], reads |-> reads]
        ELSE IF end - (p + 1) < n \/ size - Len(dst) < n
        THEN [error |-> "DNS_EILLEGAL", any |-> NULL, reads |-> reads \cup {p}]
        ELSE txt_parse_loop(P, p + 1 + n, end, dst \o SubSeq(P.data, p + 2, p + 1 + n),
                            size, reads \cup (p..p + n))

dns_txt_parse(rr, P, size) ==
    txt_parse_loop(P, rr.rd.p, rr.rd.p + rr.rd.len, <<>>, size, {})

\* size is any->rdata.size, the room the caller gave to dns_any_init()
dns_any_parse(rr, P, size) ==
    CASE rr.type = DNS_T_A -> dns_a_parse(rr, P)
      [] rr.type = DNS_T_AAAA -> dns_aaaa_parse(rr, P)
      [] rr.type = DNS_T_MX -> dns_mx_parse(rr, P)
      [] rr.type \in {DNS_T_NS, DNS_T_CNAME, DNS_T_PTR} -> dns_ns_parse(rr, P)
      [] rr.type = DNS_T_SOA -> dns_soa_parse(rr, P)
      [] rr.type = DNS_T_SRV -> dns_srv_parse(rr, P)
      [] rr.type = DNS_T_TXT -> dns_txt_parse(rr, P, size)
      [] OTHER ->
            IF rr.rd.len > size THEN [error |-> "DNS_EILLEGAL", any |-> NULL, reads |-> {}]
            ELSE [error |-> "0", reads |-> rr.rd.p..rr.rd.p + rr.rd.len - 1,
                  any |-> [data |-> SubSeq(P.data, rr.rd.p + 1, rr.rd.p + rr.rd.len)]]

(***************************************************************************)
(* The codec on its own: a caller that builds one packet by pushes of      *)
(* names and of records, or that reads a packet it has received.  hist.log *)
(* is the list of the calls made with their arguments and results,         *)
(* hist.todo the names the caller has still to push before it chooses      *)
(* freely, hist.left the number of calls it may still choose.              *)
(***************************************************************************)
MaxPush == 3

\* the name with the labels ls, each a letter, and no final dot
RECURSIVE Dn(_)
Dn(ls) ==
    IF Len(ls) = 0 THEN <<>>
    ELSE IF Len(ls) = 1 THEN <<Head(ls)>>
    ELSE <<Head(ls), 46>> \o Dn(Tail(ls))

\* "a.b.d", "c.b.c", "a.b.c", "A.B.C.", "b.c", "a", "x" and "."
PushNames ==
    {Dn(<<97, 98, 100>>), Dn(<<99, 98, 99>>), Dn(<<97, 98, 99>>),
     Dn(<<65, 66, 67>>) \o <<46>>, Dn(<<98, 99>>), Dn(<<97>>), Dn(<<120>>), <<46>>}

\* "e.z" to "u.z": one name more than the dictionary has slots
ManyNames == <<>> \o [k \in 1..DictSize + 1 |-> Dn(<<100 + k, 122>>)]

\* "z.e" to "z.u" share no suffix and fill the packet faster
ManyNamesApart == <<>> \o [k \in 1..DictSize + 1 |-> Dn(<<122, 100 + k>>)]

Scripts == {<<>>, ManyNames, ManyNamesApart}

PacketSizes == {48, 64}

ScriptSize == 128

Rec(dn, type, ttl, any) ==
    [dn |-> dn, type |-> type, class |-> DNS_C_IN, ttl |-> ttl, any |-> any]

RecA == Rec(Dn(<<97>>), DNS_T_A, U32(300), [addr |-> <<1, 120, 64, 0>>])

RecA31 == Rec(Dn(<<98, 97>>), DNS_T_A, <<128, 0, 0, 5>>, [addr |-> <<10, 0, 0, 1>>])

RecAAAA == Rec(Dn(<<97>>), DNS_T_AAAA, U32(60), [addr |-> Zeros(15) \o <<1>>])

RecNS == Rec(Dn(<<97>>), DNS_T_NS, U32(60), [host |-> Dn(<<98, 97>>)])

RecCNAME == Rec(Dn(<<98, 97>>), DNS_T_CNAME, U32(60), [host |-> Dn(<<97>>) \o <<46>>])

RecPTR == Rec(Dn(<<120>>), DNS_T_PTR, U32(60), [host |-> Dn(<<97>>)])

RecMX == Rec(Dn(<<97>>), DNS_T_MX, U32(60), [preference |-> 10, host |-> Dn(<<98, 97>>)])

RecSOA ==
    Rec(Dn(<<97>>), DNS_T_SOA, U32(60),
        [mname |-> Dn(<<120>>), rname |-> Dn(<<99, 121>>), serial |-> U32(1),
         refresh |-> U32(7200), retry |-> U32(600), expire |-> U32(86400),
         minimum |-> U32(60)])

RecSRV ==
    Rec(Dn(<<97>>), DNS_T_SRV, U32(60),
        [priority |-> 1, weight |-> 2, port |-> 53, target |-> Dn(<<98, 97>>)])

RecTXT == Rec(Dn(<<97>>), DNS_T_TXT, U32(60), [data |-> <<104, 105>>])

RecTXT0 == Rec(Dn(<<97>>), DNS_T_TXT, U32(60), [data |-> <<>>])

\* a record of a type without an entry in dns_rrtypes[]
RecOpaque == Rec(Dn(<<97>>), 99, U32(60), [data |-> <<1, 2, 3>>])

PushRecords ==
    {RecA, RecA31, RecAAAA, RecNS, RecCNAME, RecPTR, RecMX, RecSOA, RecSRV, RecTXT,
     RecTXT0, RecOpaque}

\* the packet after the pushes ps, each <<section, record>>
RECURSIVE Build(_, _)
Build(P, ps) ==
    IF ps = <<>> THEN P
    ELSE Build(wire_p_push(P, Head(ps)[1], Head(ps)[2].dn, Head(ps)[2].type,
                           Head(ps)[2].class, Head(ps)[2].ttl, Head(ps)[2].any).P,
               Tail(ps))

\* answers as a server builds them: the question, then the records
Replies ==
    { Build(wire_p_init(ScriptSize), <<<<"QD", RecA>>>> \o ps) :
        ps \in {<<<<"AN", RecSRV>>, <<"AR", RecA31>>>>, <<<<"AN", RecSOA>>>>,
                <<<<"AN", RecTXT>>, <<"AN", RecMX>>>>, <<<<"AN", RecOpaque>>, <<"NS", RecNS>>>>,
                <<<<"AN", RecAAAA>>, <<"AN", RecCNAME>>>>} }

\* questions whose name is a label before a pointer to itself, a pointer to
\* itself, a label of a reserved type, two pointers to each other
Crooked ==
    { [wire_p_init(ScriptSize) EXCEPT
          !.data = Patch(Patch(@, 12, q \o <<0, 1, 0, 1>>), 4, <<0, 1>>),
          !.end = 12 + Len(q) + 4] :
        q \in {<<1, 97, 192, 12>>, <<192, 12>>, <<64, 97, 0>>, <<192, 14, 192, 12>>} }

\* the first n bytes of P as recvfrom() leaves them in a packet of size
\* bytes: a reply cut anywhere, in a packet with or without room left
Cut(P, n, size) == [P EXCEPT !.data = SubSeq(P.data, 1, n) \o Zeros(size - n),
                             !.end = n, !.size = size, !.dict = Zeros(DictSize)]

Received ==
    Crooked \cup
    UNION { { Cut(P, n, size) : n \in 12..P.end, size \in {P.end, ScriptSize} }
            : P \in Replies }

InitP ==
    /\ so = NULL /\ net = NULL /\ R = NULL /\ pc = NULL /\ ret = NULL /\ gh = NULL
    /\ prm = NULL /\ lib = NULL
    /\ \/ \E size \in PacketSizes :
             /\ pkt = wire_p_init(size)
             /\ hist = [log |-> <<>>, todo |-> <<>>, left |-> MaxPush]
       \/ \E todo \in Scripts \ {<<>>} :
             /\ pkt = wire_p_init(ScriptSize)
             /\ hist = [log |-> <<>>, todo |-> todo, left |-> 1]
       \/ \E P \in Received :
             /\ P.end <= P.size
             /\ pkt = P
             /\ hist = [log |-> <<>>, todo |-> <<>>, left |-> 0]

\* the log with one more call; a call the caller chose is counted
Logged(e) ==
    [hist EXCEPT !.log = Append(@, e),
                 !.todo = IF @ = <<>> THEN @ ELSE Tail(@),
                 !.left = IF hist.todo = <<>> THEN @ - 1 ELSE @]

\* error = dns_d_push(P, dn, len)
DPush ==
    /\ hist.left > 0
    /\ \E dn \in (IF hist.todo # <<>> THEN {Head(hist.todo)} ELSE PushNames) :
       \E r \in {dns_d_push(pkt, dn)} :
          /\ r.error # "hang"
          /\ pkt' = r.P
          /\ hist' = Logged([op |-> "dns_d_push", dn |-> dn, at |-> pkt.end,
                             error |-> r.error])
    /\ UNCHANGED <<machines, prm, lib>>

\* error = dns_p_push(P, section, dn, dnlen, type, class, ttl, any)
PPush ==
    /\ hist.left > 0
    /\ hist.todo = <<>>
    /\ \E section \in {"QD", "AN", "NS", "AR"}, rr \in PushRecords :
       \E r \in {wire_p_push(pkt, section, rr.dn, rr.type, rr.class, rr.ttl, rr.any)} :
          /\ section = "QD" => rr = RecA
          /\ r.error # "hang"
          /\ pkt' = r.P
          /\ hist' = Logged([op |-> "dns_p_push", section |-> section, rr |-> rr,
                             at |-> pkt.end, error |-> r.error,
                             counts |-> SubSeq(pkt.data, 5, 12)])
    /\ UNCHANGED <<machines, prm, lib>>

\* the buffer the caller of dns_any_parse() gives to dns_any_init()
AnySize == 64

\* error = dns_rr_parse(&rr, src, P), then dns_any_parse(&any, &rr, P) of a
\* record that parsed, on a packet received
Parse ==
    /\ hist.log = <<>>
    /\ hist.left = 0
    /\ \E src \in 12..pkt.end :
       \E rr \in {wire_rr_parse(src, pkt)} :
       \E a \in {IF rr.error = "0" THEN dns_any_parse(rr, pkt, AnySize)
                 ELSE [error |-> rr.error, any |-> NULL, reads |-> {}]} :
          /\ a.error # "hang"
          /\ hist' = [hist EXCEPT
                        !.log = Append(@, [op |-> "parse", src |-> src, rr |-> rr,
                                           error |-> a.error, any |-> a.any,
                                           reads |-> rr.reads \cup a.reads])]
    /\ UNCHANGED <<machines, prm, pkt, lib>>

\* len = dns_d_expand(dst, lim, src, P, &error); hang says that the call
\* does not return
Expand ==
    /\ hist.log = <<>>
    /\ hist.left = 0
    /\ \E src \in 12..pkt.end, lim \in {0, 4, DNS_D_MAXNAME + 1} :
       \E e \in {dns_d_expand(lim, src, pkt)} :
          hist' = [hist EXCEPT !.log = Append(@, [op |-> "dns_d_expand", src |-> src,
                                                  lim |-> lim, len |-> e.len,
                                                  error |-> e.error, hang |-> e.hang])]
    /\ UNCHANGED <<machines, prm, pkt, lib>>

NextP ==
    \/ DPush \/ PPush \/ Parse \/ Expand

SpecP == InitP /\ [][NextP]_vars

(***************************************************************************)
(* Claims about the codec.                                                 *)
(***************************************************************************)
\* the calls of the log that returned 0
Pushed == { k \in 1..Len(hist.log) : hist.log[k].error = "0" }

\* dns_d_expand() of the name at src into a buffer of DNS_D_MAXNAME + 1 bytes
\* gives the anchored form of dn, up to case
ExpandsTo(src, dn) ==
    \E e \in {dns_d_expand(DNS_D_MAXNAME + 1, src, pkt)} :
        /\ ~e.hang
        /\ e.error = "0"
        /\ strcasecmp(e.dst, Terminated(dns_d_anchor(dn), DNS_D_MAXNAME + 1)) = 0

\* C11: in a packet built by calls of dns_d_push() alone, every name pushed
\* with success expands from its offset to the anchored form of the name
\* that was pushed, up to case.
C11_ExpandPushed ==
    (\A k \in 1..Len(hist.log) : hist.log[k].op = "dns_d_push")
    => \A k \in Pushed : ExpandsTo(hist.log[k].at, hist.log[k].dn)

\* the offsets of the records of P as dns_rr_grep() meets them, from rp on
RECURSIVE Walk(_, _)
Walk(P, rp) == IF rp < P.end THEN <<rp>> \o Walk(P, dns_rr_skip(rp, P)) ELSE <<>>

\* the elements of the sequence s that satisfy T, in order
Only(s, T(_)) == SelectSeq(s, T)

SameName(host, dn) ==
    strcasecmp(host, Terminated(dns_d_anchor(dn), DNS_D_MAXNAME + 1)) = 0

\* the RDATA a parsed of a record of type type is the RDATA b pushed
SameAny(type, a, b) ==
    CASE type \in {DNS_T_NS, DNS_T_CNAME, DNS_T_PTR} -> SameName(a.host, b.host)
      [] type = DNS_T_MX -> a.preference = b.preference /\ SameName(a.host, b.host)
      [] type = DNS_T_SOA ->
            /\ SameName(a.mname, b.mname) /\ SameName(a.rname, b.rname)
            /\ <<a.serial, a.refresh, a.retry, a.expire, a.minimum>>
                 = <<b.serial, b.refresh, b.retry, b.expire, b.minimum>>
      [] type = DNS_T_SRV ->
            /\ <<a.priority, a.weight, a.port>> = <<b.priority, b.weight, b.port>>
            /\ SameName(a.target, b.target)
      [] OTHER -> a = b

\* the record at offset rp of the packet is the record e of the log
ReadsBack(rp, e) ==
    \E rr \in {wire_rr_parse(rp, pkt)} :
        /\ rr.error = "0"
        /\ wire_rr_section(rp, pkt) = e.section
        /\ ExpandsTo(rr.dn.p, e.rr.dn)
        /\ rr.type = e.rr.type
        /\ rr.class = e.rr.class
        /\ e.section # "QD" =>
              /\ rr.ttl = e.rr.ttl
              /\ \E a \in {dns_any_parse(rr, pkt, AnySize)} :
                    a.error = "0" /\ SameAny(rr.type, a.any, e.rr.any)

\* the log is one question and then the records, section after section
InOrder ==
    /\ hist.log # <<>>
    /\ hist.log[1].section = "QD"
    /\ \A k \in 1..Len(hist.log) - 1 :
          /\ hist.log[k + 1].section # "QD"
          /\ SectionOff(hist.log[k].section) <= SectionOff(hist.log[k + 1].section)

\* C12: in a packet built by successful calls of dns_p_push() alone, one
\* question first and then the sections in order, the i-th record of every
\* section parses without error and has the section, name, type, class, TTL
\* and RDATA of the i-th record pushed to that section.
C12_ParsePushed ==
    /\ \A k \in 1..Len(hist.log) :
          hist.log[k].op = "dns_p_push" /\ hist.log[k].error = "0"
    /\ InOrder
    => \A section \in {"QD", "AN", "NS", "AR"} :
          LET InLog(e) == e.section = section
              InPkt(rp) == wire_rr_section(rp, pkt) = section
              pushed == Only(hist.log, InLog)
              found == Only(Walk(pkt, 12), InPkt)
          IN  \A i \in 1..Len(pushed) :
                 i <= Len(found) /\ ReadsBack(found[i], pushed[i])

(* The name at offset src followed as a reader follows it: ok says that    *)
(* the walk reaches the zero label over at most DNS_D_MAXPTRS pointers,    *)
(* every one to an offset below P->end and at most 0x3fff, and over        *)
(* labels that lie below P->end.                                           *)
RECURSIVE WellFounded(_, _, _, _)
WellFounded(P, src, hops, seen) ==
    IF src >= P.end \/ src \in seen THEN FALSE
    ELSE LET b == Byte(P, src)
         IN  CASE b \div 64 = 0 ->
                    \/ b = 0
                    \/ /\ P.end - (src + 1) >= b
                       /\ WellFounded(P, src + 1 + b, hops, seen \cup {src})
               [] b \div 64 = 3 ->
                    /\ P.end - src >= 2
                    /\ hops < DNS_D_MAXPTRS
                    /\ (b % 64) * 256 + Byte(P, src + 1) < P.end
                    /\ (b % 64) * 256 + Byte(P, src + 1) <= 16383
                    /\ WellFounded(P, (b % 64) * 256 + Byte(P, src + 1), hops + 1,
                                   seen \cup {src})
               [] OTHER -> FALSE

\* C13: after any sequence of pushes, the name written by the last call, a
\* dns_d_push() or the owner name of a dns_p_push() that returned 0, leads
\* over pointers to offsets below the end of the packet, and at most
\* 0x3fff, to the zero label, in at most 127 hops.
C13_PointersSound ==
    hist.log # <<>> =>
        LET e == hist.log[Len(hist.log)]
        IN  e.op \in {"dns_d_push", "dns_p_push"} /\ e.error = "0"
            => WellFounded(pkt, e.at, 0, {})

\* C14: every call of dns_d_expand() returns, whatever the packet holds and
\* wherever the name starts.
C14_ExpandReturns ==
    \A k \in 1..Len(hist.log) :
        hist.log[k].op = "dns_d_expand" => ~hist.log[k].hang

\* C15: dns_rr_parse() and the parser of the RDATA of the record read no
\* byte of the packet at an offset of P->end or beyond.
C15_ReadsBelowEnd ==
    \A k \in 1..Len(hist.log) :
        hist.log[k].op = "parse" => \A off \in hist.log[k].reads : off < pkt.end

\* C16: a dns_p_push() that does not return 0 returns DNS_ENOBUFS and leaves
\* P->end and the four counts of the header as they were before the call.
C16_Rollback ==
    hist.log # <<>> =>
        LET e == hist.log[Len(hist.log)]
        IN  e.op = "dns_p_push" /\ e.error # "0"
            => /\ e.error = "DNS_ENOBUFS"
               /\ pkt.end = e.at
               /\ SubSeq(pkt.data, 5, 12) = e.counts

\* a push of a record fails in its RDATA, behind bytes that the call wrote,
\* on a packet that already holds a record
C16_Witness ==
    /\ Len(hist.log) > 1
    /\ hist.log[Len(hist.log)].op = "dns_p_push"
    /\ hist.log[Len(hist.log)].error = "DNS_ENOBUFS"
    /\ hist.log[Len(hist.log)].section # "QD"
    /\ pkt.end > 12
    /\ dns_p_count(pkt, "ALL") > 0
    /\ pkt.size - pkt.end >= 12
    /\ \E off \in pkt.end + 10..pkt.size - 1 : Byte(pkt, off) # 0

\* ---------------------------------------------------------------------------
\* Permutation generator (dns.c 205-368).  An unsigned or uint32_t value is
\* the pair <<high half, low half>> of its two 16-bit halves.
\* ---------------------------------------------------------------------------
Half == 2 ^ 16

u32(n) == <<n \div Half, n % Half>>

add32(a, b) ==
    LET lo == a[2] + b[2]
    IN  <<(a[1] + b[1] + (lo \div Half)) % Half, lo % Half>>

sub32(a, b) == add32(a, add32(<<Half - 1 - b[1], Half - 1 - b[2]>>, u32(1)))

lt32(a, b) == IF a[1] = b[1] THEN a[2] < b[2] ELSE a[1] < b[1]

\* a << s and a >> s, 0 <= s <= 16
shl32(a, s) ==
    LET q == 2 ^ (16 - s)
    IN  <<(a[1] % q) * (2 ^ s) + (a[2] \div q), (a[2] % q) * (2 ^ s)>>

shr32(a, s) ==
    LET q == 2 ^ s
    IN  <<a[1] \div q, (a[2] \div q) + (a[1] % q) * (2 ^ (16 - s))>>

\* bit k of a ^ b, k a power of two
xor_bit(a, b, k) == (((a \div k) + (b \div k)) % 2) * k

xor16(a, b) ==
    xor_bit(a, b, 1) + xor_bit(a, b, 2) + xor_bit(a, b, 4) + xor_bit(a, b, 8)
    + xor_bit(a, b, 16) + xor_bit(a, b, 32) + xor_bit(a, b, 64) + xor_bit(a, b, 128)
    + xor_bit(a, b, 256) + xor_bit(a, b, 512) + xor_bit(a, b, 1024)
    + xor_bit(a, b, 2048) + xor_bit(a, b, 4096) + xor_bit(a, b, 8192)
    + xor_bit(a, b, 16384) + xor_bit(a, b, 32768)

xor32(a, b) == <<xor16(a[1], b[1]), xor16(a[2], b[2])>>

DNS_K_TEA_CYCLES == 32
DNS_K_TEA_MAGIC == <<40503, 31161>>
DNS_K_PERMUTOR_ROUNDS == 8

dns_k_tea_init(key, cycles) ==
    [key |-> key, cycles |-> IF cycles # 0 THEN cycles ELSE DNS_K_TEA_CYCLES]

\* ((v << 4) + k0) ^ (v + sum) ^ ((v >> 5) + k1)
tea_mix(v, sum, k0, k1) ==
    xor32(xor32(add32(shl32(v, 4), k0), add32(v, sum)), add32(shr32(v, 5), k1))

\* one pass of the for loop: <<y, z, sum>> after it
tea_cycle(tea, y, z, sum) ==
    LET sum1 == add32(sum, DNS_K_TEA_MAGIC)
    IN  The({ <<y1, add32(z, tea_mix(y1, sum1, tea.key[3], tea.key[4])), sum1>>
              : y1 \in {add32(y, tea_mix(z, sum1, tea.key[1], tea.key[2]))} })

\* n passes of the for loop, the first half of them before the second
RECURSIVE tea_loop(_, _, _)
tea_loop(tea, s, n) ==
    IF n = 0 THEN s
    ELSE IF n = 1 THEN tea_cycle(tea, s[1], s[2], s[3])
    ELSE The({ tea_loop(tea, s1, n - (n \div 2)) : s1 \in {tea_loop(tea, s, n \div 2)} })

dns_k_tea_encrypt(tea, v) ==
    SubSeq(tea_loop(tea, <<v[1], v[2], u32(0)>>, tea.cycles), 1, 2)

\* mask is 2^shift - 1 with shift <= 16, so mask & x keeps the low shift bits
mask_and(mask, x) == x[2] % (mask + 1)

RECURSIVE powof_loop(_, _, _)
powof_loop(n, m, i) ==
    IF ~lt32(m, n) THEN [hang |-> FALSE, i |-> i]
    ELSE IF m = u32(0) THEN [hang |-> TRUE, i |-> i]
    ELSE powof_loop(n, shl32(m, 1), i + 1)

\* the exponent; the loop hangs when m has wrapped to 0 below n and stays there
dns_k_permutor_powof(n) == powof_loop(n, u32(1), 0)

\* key is what the four dns_random() calls returned
dns_k_permutor_init(low, high, key) ==
    LET length == add32(sub32(high, low), u32(1))
        powof == dns_k_permutor_powof(length)
        width == powof.i + (powof.i % 2)
        shift == width \div 2
    IN  [hang |-> powof.hang,
         p |-> [stepi |-> u32(0), length |-> length, limit |-> high,
                shift |-> shift, mask |-> (2 ^ shift) - 1,
                rounds |-> DNS_K_PERMUTOR_ROUNDS,
                tea |-> dns_k_tea_init(key, 0)]]

dns_k_permutor_F(p, k, x) ==
    mask_and(p.mask, dns_k_tea_encrypt(p.tea, <<u32(k), u32(x)>>)[1])

\* the do-while of dns_k_permutor_E() from pass i on: the value returned and
\* i as the loop leaves it, the number of its passes, each of which calls
\* dns_k_permutor_F() once
RECURSIVE E_loop(_, _, _, _)
E_loop(p, l, r, i) ==
    The({ IF i + 1 < p.rounds - 1 THEN E_loop(p, r, r1, i + 1)
          ELSE [n |-> add32(shl32(u32(r % (p.mask + 1)), p.shift),
                            u32(r1 % (p.mask + 1))),
                i |-> i + 1]
          : r1 \in {xor16(l, dns_k_permutor_F(p, i, r))} })

dns_k_permutor_E(p, n) ==
    E_loop(p, mask_and(p.mask, shr32(n, p.shift)), mask_and(p.mask, n), 0).n

\* E looks at the low 2 * shift bits of stepi only: once that many successive
\* values were all refused the loop refuses every later one as well
RECURSIVE step_loop(_, _)
step_loop(p, tries) ==
    IF 2 * p.shift < 31 /\ tries >= 2 ^ (2 * p.shift)
    THEN [hang |-> TRUE, p |-> p, n |-> u32(0)]
    ELSE The({ IF ~lt32(n, p.length)
               THEN step_loop([p EXCEPT !.stepi = add32(@, u32(1))], tries + 1)
               ELSE [hang |-> FALSE, p |-> [p EXCEPT !.stepi = add32(@, u32(1))],
                     n |-> add32(n, sub32(add32(p.limit, u32(1)), p.length))]
               : n \in {dns_k_permutor_E(p, p.stepi)} })

dns_k_permutor_step(p) == step_loop(p, 0)

\* ---- specification of the permutation generator ----
MaxSpan == 6
MaxSteps == 7

\* low limits: 0, 1, one below a half boundary, one near the top of unsigned
Lows == {u32(0), u32(1), <<0, Half - 3>>, <<Half - 1, Half - MaxSpan>>}

\* [0, 2^32 - 1], [0, 2^31], [1, 2^31] and the socket's [1, 65535]
WideRanges ==
    { <<u32(0), <<Half - 1, Half - 1>>>>, <<u32(0), <<Half \div 2, 0>>>>,
      <<u32(1), <<Half \div 2, 0>>>>, <<u32(1), <<0, Half - 1>>>> }

Ranges ==
    { <<low, add32(low, u32(span))>> : low \in Lows, span \in 0..(MaxSpan - 1) }
        \cup WideRanges

Keys ==
    { <<u32(0), u32(0), u32(0), u32(0)>>, <<u32(1), u32(2), u32(3), u32(4)>>,
      <<<<4660, 22136>>, <<39612, 57072>>, <<291, 17767>>, <<65244, 47768>>>> }

InitK ==
    /\ so = NULL /\ net = NULL /\ R = NULL /\ pc = NULL /\ ret = NULL /\ gh = NULL
    /\ pkt = NULL /\ hist = NULL /\ lib = NULL
    /\ \E rg \in Ranges, key \in Keys :
          prm = [low |-> rg[1], high |-> rg[2], key |-> key, p |-> NULL,
                 out |-> <<>>, hang |-> FALSE]

\* dns_k_permutor_init(&p, low, high)
KInit ==
    /\ prm.p = NULL /\ ~prm.hang
    /\ \E i \in {dns_k_permutor_init(prm.low, prm.high, prm.key)} :
          prm' = IF i.hang THEN [prm EXCEPT !.hang = TRUE]
                 ELSE [prm EXCEPT !.p = i.p]
    /\ UNCHANGED <<machines, pkt, hist, lib>>

\* dns_k_permutor_step(&p)
KStep ==
    /\ prm.p # NULL /\ ~prm.hang
    /\ Len(prm.out) < MaxSteps
    /\ \E s \in {dns_k_permutor_step(prm.p)} :
          prm' = IF s.hang THEN [prm EXCEPT !.hang = TRUE, !.p = s.p]
                 ELSE [prm EXCEPT !.p = s.p, !.out = Append(@, s.n)]
    /\ UNCHANGED <<machines, pkt, hist, lib>>

NextK ==
    \/ KInit
    \/ KStep

SpecK == InitK /\ [][NextK]_vars

\* C17: for every range [lo, hi] and every key the calls return, and hi-lo+1
\* successive dns_k_permutor_step() calls return each value of [lo, hi]
\* exactly once and never a value outside the range
InRange(v) == ~lt32(v, prm.low) /\ ~lt32(prm.high, v)

Span == sub32(prm.high, prm.low)

OncePerPeriod ==
    /\ \A i \in 1..Len(prm.out) : InRange(prm.out[i])
    /\ \A i, j \in 1..Len(prm.out) :
          (i < j /\ ~lt32(Span, u32(j - 1))) => prm.out[i] # prm.out[j]

C17_Permutes == ~prm.hang /\ OncePerPeriod

\* ---------------------------------------------------------------------------
\* dns_r_merge() of an answer with itself.
\* ---------------------------------------------------------------------------
MaxRecs == 2

\* records of the types with a comparison of their own, a TXT record and a
\* record of a type dns_rrtypes[] does not list
MergeRecords ==
    { [name |-> NameA, type |-> DNS_T_A, class |-> DNS_C_IN, rd |-> [addr |-> 1]],
      [name |-> NameA, type |-> DNS_T_A, class |-> DNS_C_IN, rd |-> [addr |-> 2]],
      [name |-> <<46>>, type |-> DNS_T_NS, class |-> DNS_C_IN, rd |-> [host |-> NameN]],
      [name |-> NameA, type |-> DNS_T_MX, class |-> DNS_C_IN,
       rd |-> [preference |-> 10, host |-> NameM]],
      [name |-> NameA, type |-> DNS_T_TXT, class |-> DNS_C_IN,
       rd |-> [data |-> <<104, 105>>]],
      [name |-> NameA, type |-> 99, class |-> DNS_C_IN,
       rd |-> [data |-> <<1>>]] }

\* the sequences of at most n pairwise different records
RRSets(n) ==
    UNION { { s \in [1..k -> MergeRecords] : \A i, j \in 1..k : i < j => s[i] # s[j] }
            : k \in 0..n }

MergeInputs ==
    { AsPacket(Reply(Query(1, 1, NameA, DNS_T_A, DNS_C_IN), 1, 0, an, ns, ar))
      : an \in RRSets(MaxRecs), ns \in RRSets(1), ar \in RRSets(1) }

InitM ==
    /\ so = NULL /\ net = NULL /\ R = NULL /\ pc = NULL /\ ret = NULL /\ gh = NULL
    /\ prm = NULL /\ hist = NULL /\ lib = NULL
    /\ pkt \in MergeInputs

\* dns_r_merge(A, A, &error)
Merge ==
    /\ hist = NULL
    /\ hist' = [merged |-> dns_r_merge(pkt, pkt)]
    /\ UNCHANGED <<machines, pkt, prm, lib>>

NextM == Merge

SpecM == InitM /\ [][NextM]_vars

\* the records of one section, in packet order
SectionRecords(P, section) ==
    LET idxs == dns_rr_foreach(P, {section}, 0, NULL)
    IN  <<>> \o [k \in 1..Len(idxs) |-> rr_at(P, idxs[k])]

Range(s) == { s[k] : k \in 1..Len(s) }

SameSection(A, M, section) ==
    LET a == SectionRecords(A, section)
        m == SectionRecords(M, section)
    IN  Len(a) = Len(m) /\ Range(a) = Range(m)

\* C18: dns_r_merge(A, A) has the question of A and, section by section, the
\* records of A: none twice, none lost, records of every type
C18_MergeSelf ==
    hist # NULL =>
        /\ Question(hist.merged) = Question(pkt)
        /\ \A section \in {"AN", "NS", "AR"} : SameSection(pkt, hist.merged, section)

\* ---------------------------------------------------------------------------
\* Claims about dns_so_fetch(), dns_so_pollin() and dns_so_pollout().
\* ---------------------------------------------------------------------------
SoDone == {DNS_SO_UDP_DONE, DNS_SO_TCP_DONE}

\* the caller's dns_so_fetch() call is this step
SoFetchStep == pc.so = "idle" /\ ret'.fetch # "none" /\ net' = net /\ pc' = pc

\* C19: dns_so_fetch() hands the answer packet to the caller and leaves the
\* socket holding no answer if and only if the state is UDP_DONE or TCP_DONE;
\* in every other state it returns no packet, reports DNS_EUNKNOWN and
\* changes nothing in the socket
C19_FetchIffDone ==
    [][SoFetchStep =>
          IF so.state \in SoDone
          THEN /\ ret'.fetch = "packet"
               /\ gh'.fetched = so.answer
               /\ so' = [so EXCEPT !.answer = NULL]
          ELSE /\ ret'.fetch = "null"
               /\ ret'.ferr = "DNS_EUNKNOWN"
               /\ so' = so]_vars

\* what dns_so_fetch() does in a DONE state: it hands over what the socket
\* holds, a packet or nothing, stores no error, and leaves the socket empty
FetchHandsOver ==
    [][SoFetchStep =>
          IF so.state \in SoDone
          THEN /\ ret'.fetch = (IF so.answer = NULL THEN "null" ELSE "packet")
               /\ ret'.ferr = "unset"
               /\ gh'.fetched = so.answer
               /\ so' = [so EXCEPT !.answer = NULL]
          ELSE /\ ret'.fetch = "null"
               /\ ret'.ferr = "DNS_EUNKNOWN"
               /\ so' = so]_vars

dns_so_pollin_never(s) == -1

dns_so_pollin(s) ==
    CASE s.state = DNS_SO_UDP_RECV -> s.udp
      [] s.state = DNS_SO_TCP_RECV -> s.tcp
      [] OTHER -> -1

dns_so_pollout(s) ==
    CASE s.state \in {DNS_SO_UDP_CONN, DNS_SO_UDP_SEND} -> s.udp
      [] s.state \in {DNS_SO_TCP_CONN, DNS_SO_TCP_SEND} -> s.tcp
      [] OTHER -> -1

\* fd is a descriptor the socket holds open: its UDP socket, or its TCP
\* socket while the kernel has one open for it
OpenFd(fd) == fd # -1 /\ (fd = so.udp \/ (fd = so.tcp /\ net.tcp_open > 0))

\* C20: whenever dns_so_check() has returned EAGAIN, dns_so_pollin() or
\* dns_so_pollout() returns an open descriptor; pollin returns the UDP
\* descriptor exactly in UDP_RECV and the TCP descriptor exactly in TCP_RECV,
\* pollout the UDP descriptor exactly in UDP_CONN and UDP_SEND and the TCP
\* descriptor exactly in TCP_CONN and TCP_SEND, both -1 in all other states
C20_PollFd ==
    /\ ret.so = "EAGAIN" => OpenFd(dns_so_pollin(so)) \/ OpenFd(dns_so_pollout(so))
    /\ so.state = DNS_SO_UDP_RECV => dns_so_pollin(so) = so.udp
    /\ so.state = DNS_SO_TCP_RECV => dns_so_pollin(so) = so.tcp
    /\ so.state \notin {DNS_SO_UDP_RECV, DNS_SO_TCP_RECV} => dns_so_pollin(so) = -1
    /\ so.state \in {DNS_SO_UDP_CONN, DNS_SO_UDP_SEND} => dns_so_pollout(so) = so.udp
    /\ so.state \in {DNS_SO_TCP_CONN, DNS_SO_TCP_SEND} => dns_so_pollout(so) = so.tcp
    /\ so.state \notin {DNS_SO_UDP_CONN, DNS_SO_UDP_SEND, DNS_SO_TCP_CONN,
                        DNS_SO_TCP_SEND}
          => dns_so_pollout(so) = -1

\* C20 witness: dns_so_check() has returned EAGAIN while the socket waits for
\* the response on its open TCP connection
C20_Witness ==
    /\ ret.so = "EAGAIN"
    /\ so.state = DNS_SO_TCP_RECV
    /\ dns_so_pollin(so) = so.tcp /\ OpenFd(so.tcp)
    /\ dns_so_pollout(so) = -1

\* ---------------------------------------------------------------------------
\* Claims about the packets the resolver owns.
\* ---------------------------------------------------------------------------
\* struct dns_r_frame: struct dns_packet *query, *answer, *hints
FrameSlots == {"query", "answer", "hints"}

\* the slots of the stack that point to a packet
Held(r) ==
    { s \in (0..(DNS_R_MAXDEPTH - 1)) \X FrameSlots : r.stack[s[1]][s[2]] # NULL }

\* the packets dns_r_reset() passes to free(): dns_r_reset_frame() of the
\* frames sp down to 0
reset_frees(r) == { s \in Held(r) : s[1] <= r.sp }

\* a call of dns_r_reset(), by the user or by dns_r_submit()
ResetStep == C7_Reset /\ pc' = pc /\ so' = dns_so_reset(so)

\* a step that stores a new pointer in a slot that still points to a packet,
\* without free(): F->answer in GLUE and FILE, F->hints in HINTS
LostByStore ==
    \/ ExecStep(DNS_R_GLUE) /\ R.sp > 0 /\ R.stack[R.sp].answer # NULL
    \/ ExecStep(DNS_R_FILE) /\ R.stack[R.sp].answer # NULL
    \/ ExecStep(DNS_R_HINTS) /\ R.stack[R.sp].hints # NULL

\* every packet of the stack is among those dns_r_reset() frees, and
\* afterwards no frame and not the socket points to one
ResetReleases ==
    ResetStep => /\ Held(R) = reset_frees(R)
                 /\ Held(R') = {}
                 /\ so'.answer = NULL

\* C21: after dns_r_reset(), in any reachable state of the resolver, every
\* packet allocated for a frame and the answer buffer of the socket has been
\* released exactly once and no frame retains a pointer to one
C21_ResetFreesAll == [][ResetReleases /\ ~LostByStore]_vars

\* what dns_r_reset() does achieve: afterwards no frame and not the socket
\* points to a packet
ResetClears == [][ResetStep => Held(R') = {} /\ so'.answer = NULL]_vars

(***************************************************************************)
(* The reference counts of resconf, hosts and hints.  lib.obj is the heap  *)
(* of these objects, lib.user the references the caller holds to each,     *)
(* lib.res the resolvers.                                                  *)
(***************************************************************************)
MaxObj == 5
MaxRes == 2
MaxUser == 2

ObjIds == 1..MaxObj

ResIds == 1..MaxRes

obj0 == [kind |-> "none", refcount |-> 0, frees |-> 0, uaf |-> FALSE]

\* malloc(): the first block not handed out yet
obj_malloc(o) ==
    CHOOSE id \in ObjIds : o[id].kind = "none" /\ \A j \in 1..(id - 1) : o[j].kind # "none"

Unused(o) == Cardinality({ id \in ObjIds : o[id].kind = "none" })

\* dns_resconf_acquire(), dns_hosts_acquire(), dns_hints_acquire():
\* dns_atomic_inc(&refcount); uaf records an access to a freed object
obj_acquire(o, id) ==
    [o EXCEPT ![id].refcount = @ + 1, ![id].uaf = @ \/ o[id].frees > 0]

\* dns_resconf_close(), dns_hosts_close(), dns_hints_close(): nothing for a
\* null pointer; free() when dns_atomic_dec() returns 1, the count before
obj_close_early(o, id) ==
    IF id = 0 THEN o
    ELSE IF o[id].refcount - 1 # 1
    THEN [o EXCEPT ![id].refcount = @ - 1, ![id].uaf = @ \/ o[id].frees > 0]
    ELSE [o EXCEPT ![id].refcount = @ - 1, ![id].uaf = @ \/ o[id].frees > 0,
                   ![id].frees = @ + 1]

obj_close(o, id) ==
    IF id = 0 THEN o
    ELSE IF o[id].refcount # 1
    THEN [o EXCEPT ![id].refcount = @ - 1, ![id].uaf = @ \/ o[id].frees > 0]
    ELSE [o EXCEPT ![id].refcount = @ - 1, ![id].uaf = @ \/ o[id].frees > 0,
                   ![id].frees = @ + 1]

\* dns_resconf_open(), dns_hosts_open(), dns_hints_open(): a new object with
\* the count 1, or 0 when malloc() fails
obj_open(o, kind, ok) ==
    IF ~ok THEN [o |-> o, id |-> 0]
    ELSE The({ [o |-> [o EXCEPT ![id] = [obj0 EXCEPT !.kind = kind, !.refcount = 1]],
                id |-> id] : id \in {obj_malloc(o)} })

\* dns_resconf_local(), dns_hosts_local(): open, then load the file; a
\* failure to load closes the object
obj_local(o, kind, fail) ==
    IF fail = "open" THEN obj_open(o, kind, FALSE)
    ELSE The({ IF fail = "load" THEN [o |-> obj_close(n.o, n.id), id |-> 0] ELSE n
               : n \in {obj_open(o, kind, TRUE)} })

\* the step of dns_r_open() or dns_hints_local() that fails
FailPoints ==
    {"none", "resconf_open", "resconf_load", "hosts_open", "hosts_load",
     "hints_open", "hints_insert", "malloc", "dns_so_init"}

FailOf(fail, kind) ==
    IF fail = kind \o "_open" THEN "open"
    ELSE IF fail = kind \o "_load" THEN "load" ELSE "none"

\* dns_hints_local(resconf, &error)
dns_hints_local(o, resconf, fail) ==
    The({ IF rc.id = 0 THEN [o |-> rc.o, id |-> 0]
          ELSE The({ IF h.id = 0 THEN [o |-> obj_close(h.o, rc.id), id |-> 0]
                     ELSE IF fail = "hints_insert"
                     THEN [o |-> obj_close(obj_close(h.o, rc.id), h.id), id |-> 0]
                     ELSE [o |-> obj_close(h.o, rc.id), id |-> h.id]
                     : h \in {obj_open(rc.o, "hints", fail # "hints_open")} })
          : rc \in {IF resconf # 0 THEN [o |-> obj_acquire(o, resconf), id |-> resconf]
                    ELSE obj_local(o, "resconf", FailOf(fail, "resconf"))} })

\* dns_r_close(R) for the objects: dns_hints_close(R->hints),
\* dns_hosts_close(R->hosts), dns_resconf_close(R->resconf)
r_close_refs(o, r) ==
    obj_close(obj_close(obj_close(o, r.hints), r.hosts), r.resconf)

\* dns_r_open(resconf, hosts, hints, &error): the heap afterwards and the
\* resolver, NULL on failure
r_open_refs(o, resconf, hosts, hints, fail) ==
    LET o1 == IF resconf # 0 THEN obj_acquire(o, resconf) ELSE o
        o2 == IF hosts # 0 THEN obj_acquire(o1, hosts) ELSE o1
        o3 == IF hints # 0 THEN obj_acquire(o2, hints) ELSE o2
        \* error: dns_r_close(R) finds R 0 or its three pointers 0
        error(oo, rc, ho, hi) ==
            [o |-> obj_close(obj_close(obj_close(oo, rc), ho), hi), R |-> NULL]
    IN  The({ IF rc.id = 0 THEN error(rc.o, 0, hosts, hints)
              ELSE The({ IF ho.id = 0 THEN error(ho.o, rc.id, 0, hints)
                         ELSE The({ IF hi.id = 0 THEN error(hi.o, rc.id, ho.id, 0)
                                    ELSE IF fail \in {"malloc", "dns_so_init"}
                                    THEN error(hi.o, rc.id, ho.id, hi.id)
                                    ELSE [o |-> hi.o,
                                          R |-> [resconf |-> rc.id, hosts |-> ho.id,
                                                 hints |-> hi.id, refcount |-> 1]]
                                    : hi \in {IF hints # 0 THEN [o |-> ho.o, id |-> hints]
                                              ELSE dns_hints_local(ho.o, rc.id, fail)} })
                         : ho \in {IF hosts # 0 THEN [o |-> rc.o, id |-> hosts]
                                   ELSE obj_local(rc.o, "hosts", FailOf(fail, "hosts"))} })
              : rc \in {IF resconf # 0 THEN [o |-> o3, id |-> resconf]
                        ELSE obj_local(o3, "resconf", FailOf(fail, "resconf"))} })

\* the objects of a kind the caller holds a reference to, and 0
Owned(kind) ==
    {0} \cup { id \in ObjIds : lib.obj[id].kind = kind /\ lib.user[id] > 0 }

InitO ==
    /\ so = NULL /\ net = NULL /\ R = NULL /\ pc = NULL /\ ret = NULL /\ gh = NULL
    /\ pkt = NULL /\ prm = NULL /\ hist = NULL
    /\ lib = [obj |-> [id \in ObjIds |-> obj0], user |-> [id \in ObjIds |-> 0],
              res |-> [k \in ResIds |-> NULL]]

\* the caller takes the reference a call returned
Take(o, id) ==
    lib' = [lib EXCEPT !.obj = o,
                       !.user = IF id = 0 THEN @ ELSE [@ EXCEPT ![id] = @ + 1]]

\* dns_resconf_open(&error), dns_hosts_open(&error), dns_hints_open(0, &error)
OOpen ==
    /\ Unused(lib.obj) >= 1
    /\ \E kind \in {"resconf", "hosts", "hints"}, ok \in BOOLEAN :
          \E n \in {obj_open(lib.obj, kind, ok)} : Take(n.o, n.id)
    /\ UNCHANGED <<machines, pkt, prm, hist>>

\* dns_resconf_acquire(), dns_hosts_acquire(), dns_hints_acquire() by an owner
OAcquire ==
    /\ \E id \in ObjIds :
          /\ lib.user[id] > 0 /\ lib.user[id] < MaxUser
          /\ Take(obj_acquire(lib.obj, id), id)
    /\ UNCHANGED <<machines, pkt, prm, hist>>

\* dns_resconf_close(), dns_hosts_close(), dns_hints_close() by an owner
OClose ==
    /\ \E id \in ObjIds :
          /\ lib.user[id] > 0
          /\ lib' = [lib EXCEPT !.obj = obj_close(@, id), !.user[id] = @ - 1]
    /\ UNCHANGED <<machines, pkt, prm, hist>>

\* dns_hints_local(resconf, &error) called by the user
OHintsLocal ==
    /\ Unused(lib.obj) >= 2
    /\ \E resconf \in Owned("resconf"), fail \in FailPoints :
          \E n \in {dns_hints_local(lib.obj, resconf, fail)} : Take(n.o, n.id)
    /\ UNCHANGED <<machines, pkt, prm, hist>>

\* dns_r_open(resconf, hosts, hints, &error)
ROpen ==
    /\ Unused(lib.obj) >= 3
    /\ \E k \in ResIds, resconf \in Owned("resconf"), hosts \in Owned("hosts"),
          hints \in Owned("hints"), fail \in FailPoints :
          /\ lib.res[k] = NULL
          /\ \A j \in 1..(k - 1) : lib.res[j] # NULL
          /\ \E n \in {r_open_refs(lib.obj, resconf, hosts, hints, fail)} :
                lib' = [lib EXCEPT !.obj = n.o, !.res[k] = n.R]
    /\ UNCHANGED <<machines, pkt, prm, hist>>

\* dns_r_acquire(R)
RAcquire ==
    /\ \E k \in ResIds :
          /\ lib.res[k] # NULL /\ lib.res[k].refcount \in 1..(MaxUser - 1)
          /\ lib' = [lib EXCEPT !.res[k].refcount = @ + 1]
    /\ UNCHANGED <<machines, pkt, prm, hist>>

\* dns_r_close(R): nothing more while another reference to R is left
RClose ==
    /\ \E k \in ResIds :
          /\ lib.res[k] # NULL /\ lib.res[k].refcount >= 1
          /\ lib' = IF 1 < lib.res[k].refcount
                    THEN [lib EXCEPT !.res[k].refcount = @ - 1]
                    ELSE [lib EXCEPT !.obj = r_close_refs(@, lib.res[k]),
                                     !.res[k].refcount = 0]
    /\ UNCHANGED <<machines, pkt, prm, hist>>

NextO ==
    \/ OOpen \/ OAcquire \/ OClose \/ OHintsLocal \/ ROpen \/ RAcquire \/ RClose

SpecO == InitO /\ [][NextO]_vars

\* the owners of an object: the references the caller holds and the
\* resolvers not closed yet that point to it
Owners(id) ==
    lib.user[id]
    + Cardinality({ k \in ResIds : /\ lib.res[k] # NULL /\ lib.res[k].refcount > 0
                                   /\ id \in {lib.res[k].resconf, lib.res[k].hosts,
                                              lib.res[k].hints} })

\* C22: for resconf, hosts and hints, after any sequence of open, acquire,
\* dns_hints_local, dns_r_open (succeeding or failing at any step),
\* dns_r_close and close, the reference count of an object is the number of
\* its owners, the object is freed exactly when the last owner closes it,
\* never twice and never while an owner remains
C22_RefCounts ==
    \A id \in ObjIds :
        lib.obj[id].kind # "none" =>
            /\ lib.obj[id].refcount = Owners(id)
            /\ lib.obj[id].frees = (IF Owners(id) = 0 THEN 1 ELSE 0)
            /\ ~lib.obj[id].uaf

\* a resolver that shared the caller's hosts and made its own resconf and
\* hints is closed, a dns_r_open() has failed and closed what it made, and
\* the caller still owns the hosts
C22_Witness ==
    \E k \in ResIds, id \in ObjIds :
        /\ lib.res[k] # NULL /\ lib.res[k].refcount = 0
        /\ lib.res[k].hosts = id /\ lib.user[id] > 0 /\ lib.obj[id].frees = 0
        /\ lib.obj[lib.res[k].resconf].frees = 1 /\ lib.user[lib.res[k].resconf] = 0
        /\ lib.obj[lib.res[k].hints].frees = 1
        /\ \E j \in ObjIds : lib.obj[j].kind = "hints" /\ lib.obj[j].frees = 1
                             /\ j # lib.res[k].hints

(***************************************************************************)
(* The hosts table.  lib.hosts is the list of the entries in the order of  *)
(* their insertion, lib.inserted what the last dns_hosts_insert() gave,    *)
(* lib.q the question asked and lib.A and lib.error what                   *)
(* dns_hosts_query() returned for it, until the caller frees the answer.   *)
(* A name is the string of its characters, an address the bytes of in_addr *)
(* or in6_addr.                                                            *)
(***************************************************************************)
\* dns__print10(dst, lim, off, n, 0) for n below 256: the decimal digits
dns__print10(n) ==
    IF n >= 100 THEN <<48 + (n \div 100), 48 + ((n \div 10) % 10), 48 + (n % 10)>>
    ELSE IF n >= 10 THEN <<48 + (n \div 10), 48 + (n % 10)>>
    ELSE <<48 + n>>

\* "in-addr.arpa."
InAddrArpa == <<105, 110, 45, 97, 100, 100, 114, 46, 97, 114, 112, 97, 46>>

\* "ip6.arpa."
Ip6Arpa == <<105, 112, 54, 46, 97, 114, 112, 97, 46>>

\* hex[n] of "0123456789abcdef"
hex(n) == IF n < 10 THEN 48 + n ELSE 87 + n

\* the bytes of the address from the last to the first, each in decimal
dns_a_arpa(a) ==
    dns__print10(a.addr[4]) \o <<46>> \o dns__print10(a.addr[3]) \o <<46>>
    \o dns__print10(a.addr[2]) \o <<46>> \o dns__print10(a.addr[1]) \o <<46>>
    \o InAddrArpa

\* the nybbles of the address from the last to the first
RECURSIVE aaaa_arpa_loop(_, _)
aaaa_arpa_loop(addr, i) ==
    IF i < 1 THEN <<>>
    ELSE <<hex(addr[i] % 16), 46, hex(addr[i] \div 16), 46>> \o aaaa_arpa_loop(addr, i - 1)

dns_aaaa_arpa(aaaa) == aaaa_arpa_loop(aaaa.addr, 16) \o Ip6Arpa

\* dns_hosts_insert(hosts, af, addr, host, alias): the error and the table
dns_hosts_insert(hosts, af, addr, host, alias) ==
    LET ent == [host |-> dns_d_anchor(host), af |-> af, addr |-> addr, alias |-> alias]
    IN  CASE af = "AF_INET6" ->
               [error |-> "0",
                hosts |-> Append(hosts, ent @@ [arpa |-> dns_aaaa_arpa([addr |-> addr])])]
          [] af = "AF_INET" ->
               [error |-> "0",
                hosts |-> Append(hosts, ent @@ [arpa |-> dns_a_arpa([addr |-> addr])])]
          [] OTHER -> [error |-> "EINVAL", hosts |-> hosts]

\* the loops of dns_hosts_query(): a push for each of the entries, up to the
\* first push that fails (the list is halved to keep the evaluation shallow)
RECURSIVE hosts_push(_, _, _, _)
hosts_push(P, qname, rr, anys) ==
    IF anys = <<>> THEN [error |-> "0", P |-> P]
    ELSE IF Len(anys) = 1
    THEN wire_p_push(P, "AN", qname, rr.type, rr.class, U32(0), Head(anys))
    ELSE The({ IF r.error # "0" THEN r
               ELSE hosts_push(r.P, qname, rr, SubSeq(anys, Len(anys) \div 2 + 1, Len(anys)))
               : r \in {hosts_push(P, qname, rr, SubSeq(anys, 1, Len(anys) \div 2))} })

\* the entries the loops of dns_hosts_query() do not skip
hosts_entries(hosts, type, qname) ==
    CASE type = DNS_T_PTR ->
           SelectSeq(hosts, LAMBDA ent :
                        ~(ent.alias \/ 0 # strcasecmp(qname, ent.arpa)))
      [] type = DNS_T_AAAA ->
           SelectSeq(hosts, LAMBDA ent :
                        ~(ent.af # "AF_INET6" \/ 0 # strcasecmp(qname, ent.host)))
      [] type = DNS_T_A ->
           SelectSeq(hosts, LAMBDA ent :
                        ~(ent.af # "AF_INET" \/ 0 # strcasecmp(qname, ent.host)))
      [] OTHER -> <<>>

\* dns_hosts_query(hosts, Q, &error) on the bytes: P is dns_p_new(512), the
\* answer a copy of P in a buffer of its length
wire_hosts_query(hosts, Q) ==
    The({ IF rr.error # "0" THEN [P |-> NULL, error |-> rr.error]
          ELSE The({ IF x.hang THEN [P |-> NULL, error |-> "hang"]
                     ELSE IF x.len = 0 THEN [P |-> NULL, error |-> x.error]
                     ELSE IF x.len >= DNS_D_MAXNAME + 1 THEN [P |-> NULL, error |-> "EINVAL"]
                     ELSE The({ IF q.error # "0" THEN [P |-> NULL, error |-> q.error]
                                ELSE The({ IF r.error # "0"
                                           THEN [P |-> NULL, error |-> r.error]
                                           ELSE [P |-> [r.P EXCEPT
                                                          !.size = r.P.end,
                                                          !.data = SubSeq(@, 1, r.P.end)],
                                                 error |-> "0"]
                                           : r \in {hosts_push(q.P, x.dst, rr, anys)} })
                                : q \in {wire_p_push(wire_p_init(512), "QD", x.dst, rr.type,
                                                     rr.class, U32(0), NULL)},
                                  anys \in {<<>> \o [k \in 1..Len(hits) |->
                                              IF rr.type = DNS_T_PTR
                                              THEN [host |-> hits[k].host]
                                              ELSE [addr |-> hits[k].addr]]} })
                     : x \in {dns_d_expand(DNS_D_MAXNAME + 1, rr.dn.p, Q)},
                       hits \in {hosts_entries(hosts, rr.type,
                                               dns_d_expand(DNS_D_MAXNAME + 1, rr.dn.p, Q).dst)} })
          : rr \in {wire_rr_parse(12, Q)} })

MaxInsert == 2
ManyHosts == 31

Addr4(k) == <<10, 0, 0, k>>

Addr6(k) == Zeros(14) \o <<171, k>>

\* "a", "A." and "b.": two spellings of one name, and another name
HostNames == {<<97>>, <<65, 46>>, <<98, 46>>}

\* the questions: the names "a." and "B.", the arpa names of the addresses
\* in both cases, and a name no entry has
QNames ==
    {<<97, 46>>, <<66, 46>>, <<99, 46>>, dns_a_arpa([addr |-> Addr4(1)]),
     [i \in 1..Len(InAddrArpa) + 8 |->
         IF i > 8 THEN InAddrArpa[i - 8] - (IF InAddrArpa[i - 8] >= 97 THEN 32 ELSE 0)
         ELSE dns_a_arpa([addr |-> Addr4(1)])[i]]}

QTypes == {DNS_T_A, DNS_T_AAAA, DNS_T_PTR, DNS_T_MX, DNS_T_CNAME}

\* ManyHosts entries of the name "a." with the addresses 10.0.0.1 and up
RECURSIVE hosts_many(_)
hosts_many(n) ==
    IF n = 0 THEN <<>>
    ELSE dns_hosts_insert(hosts_many(n - 1), "AF_INET", Addr4(n), <<97>>, n > 1).hosts

InitH ==
    /\ so = NULL /\ net = NULL /\ R = NULL /\ pc = NULL /\ ret = NULL /\ gh = NULL
    /\ pkt = NULL /\ prm = NULL /\ hist = NULL
    /\ \E hosts \in {<<>>, hosts_many(ManyHosts)} :
          lib = [hosts |-> hosts, inserted |-> "0", q |-> NULL, A |-> NULL, error |-> "0"]

\* error = dns_hosts_insert(hosts, af, &addr, host, alias)
HInsert ==
    /\ lib.q = NULL
    /\ Len(lib.hosts) < MaxInsert
    /\ \E af \in {"AF_INET", "AF_INET6", "AF_UNIX"}, host \in HostNames, k \in 1..2,
          alias \in BOOLEAN :
          \E r \in {dns_hosts_insert(lib.hosts, af,
                                     IF af = "AF_INET6" THEN Addr6(k) ELSE Addr4(k),
                                     host, alias)} :
             lib' = [lib EXCEPT !.hosts = r.hosts, !.inserted = r.error]
    /\ UNCHANGED <<machines, pkt, prm, hist>>

\* A = dns_hosts_query(hosts, Q, &error) for a query Q of one question
HQuery ==
    /\ lib.q = NULL
    /\ \E qname \in QNames, type \in QTypes :
          \E Q \in {wire_p_push(wire_p_init(DNS_P_QBUFSIZ), "QD", qname, type, DNS_C_IN,
                                U32(0), NULL).P} :
          \E r \in {wire_hosts_query(lib.hosts, Q)} :
             lib' = [lib EXCEPT !.q = [name |-> qname, type |-> type],
                                !.A = r.P, !.error = r.error]
    /\ UNCHANGED <<machines, pkt, prm, hist>>

\* free(A)
HFree ==
    /\ lib.q # NULL
    /\ lib' = [lib EXCEPT !.q = NULL, !.A = NULL, !.error = "0"]
    /\ UNCHANGED <<machines, pkt, prm, hist>>

NextH == HInsert \/ HQuery \/ HFree

SpecH == InitH /\ [][NextH]_vars

\* the two names are equal but for the case of their letters
EqualNames(a, b) == Len(a) = Len(b) /\ \A i \in 1..Len(a) : tolower(a[i]) = tolower(b[i])

\* the RDATA the claim expects in the answer to the question q, in order
Expected(hosts, q) ==
    LET hit == SelectSeq(hosts, LAMBDA ent :
                   \/ q.type = DNS_T_A /\ ent.af = "AF_INET" /\ EqualNames(ent.host, q.name)
                   \/ q.type = DNS_T_AAAA /\ ent.af = "AF_INET6"
                                          /\ EqualNames(ent.host, q.name)
                   \/ q.type = DNS_T_PTR /\ ~ent.alias /\ EqualNames(ent.arpa, q.name))
    IN  <<>> \o [k \in 1..Len(hit) |->
                   IF q.type = DNS_T_PTR THEN [host |-> hit[k].host]
                   ELSE [addr |-> hit[k].addr]]

\* the offset behind n records from src on
RECURSIVE dns_rr_skip_n(_, _, _)
dns_rr_skip_n(P, src, n) ==
    IF n = 0 THEN src
    ELSE IF n = 1 THEN dns_rr_skip(src, P)
    ELSE The({ dns_rr_skip_n(P, mid, n - n \div 2)
               : mid \in {dns_rr_skip_n(P, src, n \div 2)} })

\* the n records of P from the offset src on, as a reader finds them
RECURSIVE RecordsFrom(_, _, _)
RecordsFrom(P, src, n) ==
    IF n = 0 THEN <<>>
    ELSE IF n = 1
    THEN The({ <<[error |-> rr.error, name |-> HostAt(src, P).host, type |-> rr.type,
                  ttl |-> rr.ttl,
                  any |-> IF rr.error = "0" THEN dns_any_parse(rr, P, AnySize).any
                          ELSE NULL]>>
               : rr \in {wire_rr_parse(src, P)} })
    ELSE RecordsFrom(P, src, n \div 2)
         \o RecordsFrom(P, dns_rr_skip_n(P, src, n \div 2), n - n \div 2)

\* the answer A has the question q, then one answer record with TTL 0 and
\* the name and type of the question for each of the RDATA (a host name but
\* for case), and no more
AnswerIs(A, q, anys) ==
    /\ A # NULL
    /\ dns_p_count(A, "QD") = 1 /\ dns_p_count(A, "AN") = Len(anys)
    /\ dns_p_count(A, "NS") = 0 /\ dns_p_count(A, "AR") = 0
    /\ The({ /\ rs[1].error = "0" /\ EqualNames(rs[1].name, q.name) /\ rs[1].type = q.type
             /\ \A k \in 1..Len(anys) :
                   /\ rs[k + 1].error = "0"
                   /\ EqualNames(rs[k + 1].name, q.name)
                   /\ rs[k + 1].type = q.type
                   /\ rs[k + 1].ttl = U32(0)
                   /\ IF q.type = DNS_T_PTR
                      THEN EqualNames(rs[k + 1].any.host, anys[k].host)
                      ELSE rs[k + 1].any = anys[k]
             : rs \in {RecordsFrom(A, 12, 1 + Len(anys))} })
    /\ A.end = dns_rr_skip_n(A, 12, 1 + Len(anys))

\* a call of dns_hosts_query()
HQueryStep == lib # NULL /\ lib.q = NULL /\ lib'.q # NULL

\* C23: dns_hosts_query() answers an A (AAAA) question with one answer
\* record of TTL 0 for each entry of family IPv4 (IPv6) whose name is the
\* question name but for case, aliases too, in the order of insertion; a PTR
\* question with one record for each entry that is no alias and whose arpa
\* name is the question name; any other question with no answer record
C23_HostsAnswer ==
    [][HQueryStep => AnswerIs(lib'.A, lib'.q, Expected(lib.hosts, lib'.q))]_vars

\* what the code does: the answer is the one of the claim whenever the
\* records fit into the 512 bytes of the packet dns_hosts_query() builds,
\* and there is no answer and the error is DNS_ENOBUFS when they do not
HostsAnswerFits ==
    [][HQueryStep =>
         IF lib'.error = "0"
         THEN AnswerIs(lib'.A, lib'.q, Expected(lib.hosts, lib'.q))
         ELSE /\ lib'.A = NULL /\ lib'.error = "DNS_ENOBUFS"
              /\ Len(Expected(lib.hosts, lib'.q)) = ManyHosts]_vars

\* an answer with two records: an entry and an alias spelled differently
HostsAnswerTwo ==
    /\ lib # NULL /\ lib.A # NULL /\ lib.q.type = DNS_T_A
    /\ dns_p_count(lib.A, "AN") = 2
    /\ \E k \in 1..Len(lib.hosts) : lib.hosts[k].alias

\* an answer to a PTR question with a record
HostsAnswerPtr ==
    /\ lib # NULL /\ lib.A # NULL /\ lib.q.type = DNS_T_PTR
    /\ dns_p_count(lib.A, "AN") = 1

\* ---------------------------------------------------------------------------
\* Claims about the TCP transport.
\* ---------------------------------------------------------------------------
\* the message of a query on a TCP stream: its length in two bytes, the
\* higher first, then its bytes
TcpMessage(Q) == <<(Q.end \div 256) % 256, Q.end % 256>> \o SubSeq(Q.data, 1, Q.end)

\* the bytes the step has passed to send()
SentNow == SubSeq(net'.tcp_tx, Len(net.tcp_tx) + 1, Len(net'.tcp_tx))

\* a call of dns_so_check() in TCP_SEND passes to send() the bytes of the
\* message that follow the so->qout bytes sent before, and the socket leaves
\* TCP_SEND only with the whole message sent
SendsNext ==
    SoStep(DNS_SO_TCP_SEND) /\ so.query # NULL =>
        /\ SentNow = SubSeq(TcpMessage(so.query), so.qout + 1, so.qout + Len(SentNow))
        /\ so'.qout = so.qout + Len(SentNow)
        /\ so'.state # DNS_SO_TCP_SEND => so'.qout = Len(TcpMessage(so.query))

\* C24: however the kernel splits the transmission into partial sends and
\* EAGAIN, the bytes passed to send() over all calls of dns_so_check() are
\* the two bytes of the length of the query, then the bytes of the query,
\* each once and in order, and the socket leaves TCP_SEND only when all of
\* them are sent
C24_TcpSendsAll == [][SendsNext]_vars

\* what the code does: the message is right when the first send() takes it
\* whole or sends nothing before EAGAIN
SendsWhole == [][so.qout = 0 => SendsNext]_vars

\* dns_so_fetch() returns a packet
FetchesPacket == SoFetchStep /\ ret'.fetch = "packet"

\* the packet has at least the 12 bytes of a header and dns_so_verify()
\* returns 0 for it
Verified(s, P) == P # NULL /\ P.end >= 12 /\ dns_so_verify(s, P) = "0"

\* C25: dns_so_fetch() never hands the caller a packet that failed the
\* verification: when fetch returns a packet, the last dns_so_check() has
\* returned 0 for it, also when a TCP response fails the verification or is
\* shorter than 12 bytes
C25_FetchVerified ==
    [][FetchesPacket => ret.so = "0" /\ Verified(so, gh'.fetched)]_vars

\* what the code does: the packets fetched in UDP_DONE are verified, and so
\* are those fetched after a dns_so_check() that returned 0
FetchVerifiedUdp ==
    [][FetchesPacket /\ (so.state = DNS_SO_UDP_DONE \/ ret.so = "0")
          => Verified(so, gh'.fetched)]_vars

\* ---------------------------------------------------------------------------
\* Claims about the states of dns_r_exec().
\* ---------------------------------------------------------------------------
\* assert(F->answer) of the cases FINISH and DONE
AssertAnswer ==
    \A X \in {DNS_R_FINISH, DNS_R_DONE} : RStep(X) => R.stack[R.sp].answer # NULL

AssertAnswerFinish == RStep(DNS_R_FINISH) => R.stack[R.sp].answer # NULL

\* assert(F[1].answer) of the case SMART1_A
AssertSubAnswer == RStep(DNS_R_SMART1_A) => R.stack[R.sp + 1].answer # NULL

\* assert(F->query) of the cases GLUE and BIND, which frame 0 does not reach
AssertQuery ==
    \A X \in {DNS_R_GLUE, DNS_R_BIND} : RStep(X) /\ R.sp > 0 => R.stack[R.sp].query # NULL

\* C27: assert(F->answer) in FINISH and DONE, assert(F[1].answer) in SMART1_A
\* and assert(F->query) in GLUE and BIND hold in every reachable state of
\* every sequence of calls, dns_r_check() after dns_r_fetch() of a finished
\* resolver included
C27_Asserts == AssertAnswer /\ AssertSubAnswer /\ AssertQuery

\* what the code does: every assertion holds but the one of DONE in frame 0
AssertsButDone ==
    /\ AssertAnswerFinish /\ AssertSubAnswer /\ AssertQuery
    /\ RStep(DNS_R_DONE) /\ R.sp > 0 => R.stack[R.sp].answer # NULL

(***************************************************************************)
(* Claims about the search list and the lookup methods.                    *)
(***************************************************************************)
\* FOREACH_NS at frame 0 finds no further nameserver in the hints
NsExhausted ==
    /\ ExecStep(DNS_R_FOREACH_NS)
    /\ R.sp = 0
    /\ dns_rr_grep(dns_rr_i_save(R.stack[0].hints_i), R.stack[0].hints).n = 0

\* the search iterator of the resolver has a further candidate name
MoreCandidates == Len(dns_resconf_search(R.qname, R.qlen, R.resconf, R.search).dst) > 0

\* C28: during a BIND lookup at frame 0, when every nameserver has been tried
\* for the current search candidate, the resolver takes the next candidate of
\* the search iterator (SEARCH), and moves on to the next lookup method
\* (SWITCH) only when the search iterator is exhausted
C28_NextCandidate ==
    [][NsExhausted => R'.stack[0].state = (IF MoreCandidates THEN DNS_R_SEARCH
                                           ELSE DNS_R_SWITCH)]_vars

\* what dns_r_exec() does: with the nameservers exhausted frame 0 moves on to
\* the next lookup method, whatever the search iterator still holds
NsExhaustedSwitches ==
    [][NsExhausted => R'.stack[0].state = DNS_R_SWITCH /\ R'.search = R.search]_vars

\* the nameservers are exhausted while the search iterator has a candidate
NsExhaustedEarly ==
    /\ RStep(DNS_R_FOREACH_NS)
    /\ R.sp = 0
    /\ dns_rr_grep(dns_rr_i_save(R.stack[0].hints_i), R.stack[0].hints).n = 0
    /\ MoreCandidates

(***************************************************************************)
(* Claims about the responses a recursive resolver is given.               *)
(***************************************************************************)
\* QUERY_A of a recursive resolver goes on with the packet of dns_so_fetch()
ClassifyStep ==
    /\ pc.r = "so"
    /\ pc.so = "idle"
    /\ ret.so = "0"
    /\ R.resconf.options.recurse = 1
    /\ pc'.r = "exec"

\* the records of the section of P, by the counts of the header
SectionOf(P, section) ==
    LET an == dns_p_count(P, "AN")
        ns == dns_p_count(P, "NS")
    IN  IF section = "AN" THEN { P.rrs[k] : k \in 1..an }
        ELSE { P.rrs[k] : k \in (an + 1)..(an + ns) }

\* the type of a record is the very type of the query
SameType(qtype, type) == type = qtype

\* a record is of the query type: the types 0, of the query that check()
\* builds when nothing was submitted, and DNS_T_ALL ask for every type
MatchingType(qtype, type) == qtype \in {0, DNS_T_ALL} \/ type = qtype

\* the state the claim gives a frame with the query Q for the response P,
\* with Asked(qtype, type) for a record of the query type
Classified(Q, P, Asked(_, _)) ==
    LET q == Question(Q)
    IN  IF \E rr \in SectionOf(P, "AN") :
              Asked(q.qtype, rr.type) /\ SameText(rr.name, q.qname)
        THEN DNS_R_FINISH
        ELSE IF \E rr \in SectionOf(P, "AN") :
                   rr.type = DNS_T_CNAME /\ SameText(rr.name, q.qname)
        THEN DNS_R_CNAME0_A
        ELSE IF \E rr \in SectionOf(P, "NS") : rr.type = DNS_T_NS
        THEN DNS_R_ITERATE
        ELSE IF (P.data[3] \div 4) % 2 = 1
        THEN DNS_R_FINISH
        ELSE DNS_R_FOREACH_A

\* the frame of the step is where Asked puts it, with the response as its
\* hints when that is ITERATE and as its answer otherwise
ClassifiedBy(Asked(_, _)) ==
    LET P == dns_so_fetch(so).answer
        F == R'.stack[R.sp]
        X == Classified(R.stack[R.sp].query, P, Asked)
    IN  /\ R'.sp = R.sp
        /\ F.state = X
        /\ IF X = DNS_R_ITERATE THEN F.hints = P /\ F.answer = NULL
           ELSE F.answer = P /\ F.hints = R.stack[R.sp].hints

\* C29: in recursive mode a response is classified in this order: a record
\* of the query name and the query type in AN sends the frame to FINISH;
\* otherwise a CNAME of the query name in AN sends it to CNAME0_A; otherwise
\* an NS record in the authority section makes the response the hints of the
\* frame and sends it to ITERATE; otherwise AA sends it to FINISH; otherwise
\* the frame returns to FOREACH_A
C29_Classify == [][ClassifyStep => ClassifiedBy(MatchingType)]_vars

\* the same with the very type of the query in the first case: it differs
\* for the queries of type 0 and DNS_T_ALL, and for no other
ClassifyLiteral ==
    [][ClassifyStep /\ R.qtype \notin {0, DNS_T_ALL} => ClassifiedBy(SameType)]_vars

\* a frame of a recursive resolver is in FINISH with an answer that holds
\* the record asked for and the name servers of the zone
C29_Witness ==
    /\ R.resconf.options.recurse = 1
    /\ pc.r = "exec"
    /\ \E k \in 0..R.sp :
          /\ R.stack[k].state = DNS_R_FINISH
          /\ R.stack[k].answer # NULL
          /\ Classified(R.stack[k].query, R.stack[k].answer, MatchingType) = DNS_R_FINISH
          /\ \E rr \in SectionOf(R.stack[k].answer, "NS") : rr.type = DNS_T_NS

\* the other cases: an alias with a delegation is followed, a delegation
\* with AA becomes the hints, and a query for all records ends with an alias
ClassifyCname ==
    /\ R.resconf.options.recurse = 1
    /\ pc.r = "exec"
    /\ R.stack[R.sp].state = DNS_R_CNAME0_A
    /\ R.stack[R.sp].answer # NULL
    /\ \E rr \in SectionOf(R.stack[R.sp].answer, "NS") : rr.type = DNS_T_NS

ClassifyDelegation ==
    /\ R.resconf.options.recurse = 1
    /\ pc.r = "exec"
    /\ R.stack[R.sp].state = DNS_R_ITERATE
    /\ R.stack[R.sp].hints # NULL
    /\ hdr_aa(R.stack[R.sp].hints) = 1

ClassifyAll ==
    /\ R.resconf.options.recurse = 1
    /\ pc.r = "exec"
    /\ R.qtype = DNS_T_ALL
    /\ R.sp = 0
    /\ R.stack[0].state = DNS_R_FINISH
    /\ R.stack[0].answer # NULL
    /\ \A rr \in SectionOf(R.stack[0].answer, "AN") : rr.type = DNS_T_CNAME
    /\ SectionOf(R.stack[0].answer, "AN") # {}

(***************************************************************************)
(* Claims about delegations that cannot be read.                           *)
(***************************************************************************)
\* FOREACH_A of a recursive resolver with hints that are the response of a
\* server, at an NS record whose RDATA dns_ns_parse() cannot read
BadNsStep ==
    /\ ExecStep(DNS_R_FOREACH_A)
    /\ R.resconf.options.recurse = 1
    /\ R.stack[R.sp].hints # NULL
    /\ Len(R.stack[R.sp].hints.rrs[R.stack[R.sp].hints_ns].rd.host) = 0

\* C30: in recursive mode a delegation whose NS records cannot be parsed never
\* makes dns_r_check() return an error: the frame goes on to the next address
\* or nameserver
C30_BadNsFallsBack ==
    [][BadNsStep => /\ pc'.r = "exec"
                    /\ ret'.r = ret.r
                    /\ R'.stack[R.sp].state \in {DNS_R_FOREACH_A, DNS_R_FOREACH_NS}]_vars

\* what dns_r_exec() does: dns_r_check() returns DNS_EILLEGAL, and the frame
\* stays in FOREACH_A at the same record
BadNsFails ==
    [][BadNsStep => pc'.r = "idle" /\ ret'.r = "DNS_EILLEGAL" /\ R' = R]_vars

\* dns_r_check() has returned for a frame at such a record
BadNsReturned ==
    /\ pc.r = "idle"
    /\ ret.r = "DNS_EILLEGAL"
    /\ R.resconf.options.recurse = 1
    /\ R.stack[R.sp].state = DNS_R_FOREACH_A
    /\ R.stack[R.sp].hints # NULL
    /\ Len(R.stack[R.sp].hints.rrs[R.stack[R.sp].hints_ns].rd.host) = 0

(***************************************************************************)
(* A recursive resolver and servers that always answer: every datagram is  *)
(* answered, by a delegation with glue, the records asked for, or nothing. *)
(*  The caller calls dns_r_check() again whenever   *)
(* it has returned, and the code runs on whenever it can.                  *)
(***************************************************************************)
LTemplates == {"NS", "ANS", "LAME"}

LNetUdp ==
    /\ so.state = DNS_SO_UDP_RECV
    /\ net.udp_rx = <<>>
    /\ \E t \in LTemplates :
          net' = [net EXCEPT !.udp_rx = <<Response(t, so.query)>>]
    /\ UNCHANGED <<so, R, pc, ret, gh>>
    /\ UNCHANGED codec

InitL ==
    /\ so = dns_so_init("ANY")
    /\ net = net_init(FALSE, 0)
    /\ R = dns_r_open(Resconf(LookupBF, 1, 0), <<>>, HintsOf(1))
    /\ pc = pc_init
    /\ ret = ret_init
    /\ gh = gh_init
    /\ pkt = NULL
    /\ prm = NULL
    /\ hist = NULL
    /\ lib = NULL

\* the steps of dns_r_exec() and of dns_so_check() over UDP
LStep ==
    \/ r_INIT \/ r_GLUE \/ r_SWITCH \/ r_FILE \/ r_BIND \/ r_SEARCH \/ r_HINTS
    \/ r_ITERATE \/ r_FOREACH_NS \/ r_FOREACH_A
    \/ r_QUERY_A \/ r_QUERY_A_ret \/ r_FINISH \/ r_DONE \/ r_SERVFAIL
    \/ so_UDP_INIT \/ so_UDP_CONN \/ so_UDP_SEND \/ so_UDP_RECV \/ so_UDP_DONE

NextL == RSubmit \/ RCheck \/ LStep \/ LNetUdp

SpecL ==
    /\ InitL
    /\ [][NextL]_vars
    /\ WF_vars(RCheck)
    /\ WF_vars(LStep)
    /\ WF_vars(LNetUdp)

\* dns_r_check() has returned something other than EAGAIN
Returned == pc.r = "idle" /\ ret.r \notin {"none", "EAGAIN"}

\* C26: when every exchange of the transport completes, fails or times out,
\* the repeated dns_r_check() calls after dns_r_submit() eventually return
\* something other than EAGAIN, whatever the servers answer
C26_Terminates == (gh.submits > 0) ~> Returned

\* a frame that has queried a server is in ITERATE again: the response was a
\* delegation and is now the hints of the frame
Delegated ==
    /\ pc.r = "exec"
    /\ R.stack[R.sp].state = DNS_R_ITERATE
    /\ gh.sub[R.sp] > 0

\* what holds: the calls return something other than EAGAIN unless the
\* servers delegate again and again
TerminatesOrDelegated == ([]<>Delegated) \/ C26_Terminates

(***************************************************************************)
(* dns_rr_grep() over the bytes of a packet.  A record is its offset, the  *)
(* filter and the order are those of struct dns_rr_i, the comparators are  *)
(* dns_rr_i_packet(), dns_rr_i_order() and dns_rr_i_shuffle().  junk is    *)
(* what the two union dns_any on the stack of dns_rr_cmp() hold in their   *)
(* size field, which nothing initialises; rnd is the value dns_random()    *)
(* returns when dns_rr_i_shuffle() finds regs[0] to be 0.                  *)
(***************************************************************************)
DNS_C_ANY == 255

SectionBit(s) == CASE s = "QD" -> 1 [] s = "AN" -> 2 [] s = "NS" -> 4 [] s = "AR" -> 8
                   [] OTHER -> 0

sbox ==
    <<182, 184, 75, 130, 183, 99, 186, 139, 2, 140, 234, 145, 117, 167, 236, 94,
      88, 238, 107, 242, 204, 45, 124, 31, 173, 51, 152, 44, 155, 84, 237, 76,
      199, 15, 104, 23, 216, 229, 215, 4, 203, 190, 54, 255, 185, 65, 214, 224,
      219, 243, 91, 9, 98, 72, 24, 160, 141, 3, 109, 41, 148, 231, 196, 105,
      33, 26, 218, 142, 92, 225, 200, 46, 128, 114, 14, 34, 86, 156, 194, 40,
      132, 57, 95, 252, 89, 170, 253, 73, 129, 254, 1, 25, 202, 63, 172, 110,
      210, 69, 178, 150, 164, 38, 206, 222, 134, 191, 221, 175, 131, 201, 217, 138,
      188, 20, 96, 42, 6, 249, 111, 228, 209, 59, 144, 205, 163, 43, 241, 21,
      97, 62, 223, 240, 123, 187, 0, 61, 149, 52, 192, 87, 197, 120, 251, 135,
      151, 101, 49, 250, 213, 125, 179, 161, 177, 102, 136, 68, 55, 157, 17, 127,
      174, 230, 118, 66, 227, 47, 171, 22, 115, 195, 5, 247, 112, 193, 13, 116,
      39, 8, 56, 244, 79, 168, 143, 245, 181, 77, 103, 220, 60, 32, 165, 35,
      83, 12, 137, 48, 85, 78, 106, 113, 53, 211, 108, 81, 158, 11, 10, 19,
      36, 74, 166, 189, 67, 147, 239, 207, 169, 29, 90, 159, 100, 246, 7, 37,
      50, 176, 232, 126, 70, 180, 71, 212, 153, 235, 119, 93, 122, 226, 146, 82,
      18, 58, 30, 208, 16, 133, 121, 233, 198, 64, 28, 27, 162, 154, 248, 80>>

dns_k_shuffle8(i, r) == (i \div 256) * 256 + sbox[((r + (i % 256)) % 256) + 1]

\* memcmp()-like comparison of two byte strings of one length: the
\* difference at the first place where they differ
RECURSIVE bytes_cmp(_, _)
bytes_cmp(a, b) ==
    IF a = <<>> \/ b = <<>> THEN 0
    ELSE IF Head(a) # Head(b) THEN Head(a) - Head(b)
    ELSE bytes_cmp(Tail(a), Tail(b))

Sign(n) == IF n < 0 THEN -1 ELSE IF n > 0 THEN 1 ELSE 0

wire_soa_cmp(a, b) ==
    LET ts(x) == x.serial \o x.refresh \o x.retry \o x.expire \o x.minimum
    IN  IF strcasecmp(a.mname, b.mname) # 0 THEN strcasecmp(a.mname, b.mname)
        ELSE IF strcasecmp(a.rname, b.rname) # 0 THEN strcasecmp(a.rname, b.rname)
        ELSE 0 - Sign(bytes_cmp(ts(a), ts(b)))

wire_srv_cmp(a, b) ==
    IF a.priority # b.priority THEN a.priority - b.priority
    ELSE IF a.weight # b.weight THEN a.weight - b.weight
    ELSE IF a.port # b.port THEN a.port - b.port
    ELSE strcasecmp(a.target, b.target)

\* dns_any_cmp() of two RDATA as the parsers of the packet leave them
wire_any_cmp(a, x, b, y) ==
    IF x # y THEN x - y
    ELSE CASE x = DNS_T_A -> Sign(bytes_cmp(a.addr, b.addr))
           [] x = DNS_T_AAAA -> bytes_cmp(a.addr, b.addr)
           [] x = DNS_T_MX -> dns_mx_cmp(a, b)
           [] x \in {DNS_T_NS, DNS_T_CNAME, DNS_T_PTR} -> dns_ns_cmp(a, b)
           [] x = DNS_T_SOA -> wire_soa_cmp(a, b)
           [] x = DNS_T_SRV -> wire_srv_cmp(a, b)
           [] x = DNS_T_TXT -> -1
           [] OTHER -> -1

wire_rr_cmp(r0, P0, r1, P1, junk) ==
    IF r0.type # r1.type THEN r0.type - r1.type
    ELSE IF r0.class # r1.class THEN r0.class - r1.class
    ELSE \* two-step binding keeps the expansions and the parses evaluated once
         The({ IF h0.len = 0 THEN -1
               ELSE IF h1.len = 0 THEN 1
               ELSE IF strcasecmp(h0.dst, h1.dst) # 0 THEN strcasecmp(h0.dst, h1.dst)
               ELSE The({ IF any0.error # "0" THEN -1
                          ELSE IF any1.error # "0" THEN 1
                          ELSE wire_any_cmp(any0.any, r0.type, any1.any, r1.type)
                          : any0 \in {dns_any_parse(r0, P0, junk[1])},
                            any1 \in {dns_any_parse(r1, P1, junk[2])} })
               : h0 \in {dns_d_expand(DNS_D_MAXNAME + 1, r0.dn.p, P0)},
                 h1 \in {dns_d_expand(DNS_D_MAXNAME + 1, r1.dn.p, P1)} })

\* struct dns_rr_i over a packet of bytes; name is NULL or [dn |-> the string]
wire_state0 == [exec |-> 0, next |-> 0, count |-> 0, regs0 |-> 0]

wire_rr_i_new(section, type, class, name, data, sort) ==
    [section |-> section, type |-> type, class |-> class, name |-> name, data |-> data,
     sort |-> sort, state |-> wire_state0]

\* the record at rp as the loops of dns_rr_i_start() and dns_rr_i_skip()
\* hold it: parsed, with its section
wire_rr_at(rp, P) == [wire_rr_parse(rp, P) EXCEPT !.section = wire_rr_section(rp, P)]

wire_rr_i_match(rr, i, P, junk) ==
    /\ i.section = {} \/ rr.section \in i.section
    /\ i.type = 0 \/ rr.type = i.type \/ i.type = DNS_T_ALL
    /\ i.class = 0 \/ rr.class = i.class \/ i.class = DNS_C_ANY
    /\ i.name # NULL =>
          \E dn \in {dns_d_expand(DNS_D_MAXNAME + 1, rr.dn.p, P)} :
             /\ dn.len < DNS_D_MAXNAME + 1
             /\ strcasecmp(dn.dst, i.name.dn) = 0
    /\ (i.data # NULL /\ i.type # 0 /\ SectionBit(rr.section) > SectionBit("QD")) =>
          \E rd \in {dns_any_parse(rr, P, junk[1])} :
             /\ rd.error = "0"
             /\ wire_any_cmp(rd.any, rr.type, i.data, i.type) = 0

wire_rr_i_packet(a, b) == a.dn.p - b.dn.p

wire_rr_i_order(a, b, P, junk) ==
    IF SectionBit(a.section) # SectionBit(b.section)
    THEN SectionBit(a.section) - SectionBit(b.section)
    ELSE IF a.type # b.type THEN a.dn.p - b.dn.p
    ELSE wire_rr_cmp(a, P, b, P, junk)

\* regs0 is i->state.regs[0] after the while loop at the head of the function
wire_rr_i_shuffle(a, b, regs0) ==
    IF SectionBit(a.section) # SectionBit(b.section)
    THEN SectionBit(a.section) - SectionBit(b.section)
    ELSE dns_k_shuffle8(a.dn.p, regs0) - dns_k_shuffle8(b.dn.p, regs0)

\* i->sort(a, b, i, P)
wire_sort(a, b, i, P, junk, rnd) ==
    CASE i.sort = "dns_rr_i_order" -> wire_rr_i_order(a, b, P, junk)
      [] i.sort = "dns_rr_i_shuffle" ->
            wire_rr_i_shuffle(a, b, IF i.state.regs0 = 0 THEN rnd ELSE i.state.regs0)
      [] OTHER -> wire_rr_i_packet(a, b)

\* the offsets from rp on whose record parses
wire_parsed(P) == SelectSeq(Walk(P, 12), LAMBDA rp : wire_rr_parse(rp, P).error = "0")

\* the records the loops of dns_rr_i_start() and dns_rr_i_skip() do not pass
\* over, in packet order
wire_matches(i, P, junk) ==
    The({ <<>> \o [k \in 1..Len(rps) |-> wire_rr_at(rps[k], P)]
          : rps \in {SelectSeq(wire_parsed(P),
                               LAMBDA rp : wire_rr_i_match(wire_rr_at(rp, P), i, P, junk))} })

\* the second loop of dns_rr_i_start(): r0 is the least record so far
RECURSIVE wire_start_cont(_, _, _, _, _, _)
wire_start_cont(r0, rest, i, P, junk, rnd) ==
    IF rest = <<>> THEN r0.dn.p
    ELSE wire_start_cont(IF wire_sort(Head(rest), r0, i, P, junk, rnd) < 0
                         THEN Head(rest) ELSE r0,
                         Tail(rest), i, P, junk, rnd)

wire_rr_i_start(i, P, junk, rnd) ==
    The({ IF m = <<>> THEN P.end
          ELSE wire_start_cont(Head(m), Tail(m), i, P, junk, rnd)
          : m \in {wire_matches(i, P, junk)} })

\* the second loop of dns_rr_i_skip(): rZ is the least record above r0 so far
RECURSIVE wire_skip_cont(_, _, _, _, _, _)
wire_skip_cont(rZ, rest, i, P, junk, rnd) ==
    IF rest = <<>> THEN rZ.dn.p
    ELSE wire_skip_cont(IF wire_sort(Head(rest), rZ, i, P, junk, rnd) >= 0
                        THEN rZ ELSE Head(rest),
                        Tail(rest), i, P, junk, rnd)

\* dns_rr_i_skip() that passes over the records below rp only
wire_rr_i_skip_same(rp, i, P, junk, rnd) ==
    IF wire_rr_parse(rp, P).error # "0" THEN P.end
    ELSE The({ IF above = <<>> THEN P.end
               ELSE wire_skip_cont(Head(above), Tail(above), i, P, junk, rnd)
               : above \in {SelectSeq(wire_matches(i, P, junk),
                               LAMBDA rr : wire_sort(rr, wire_rr_at(rp, P), i, P, junk, rnd) >= 0)} })

wire_rr_i_skip(rp, i, P, junk, rnd) ==
    IF wire_rr_parse(rp, P).error # "0" THEN P.end
    ELSE The({ IF above = <<>> THEN P.end
               ELSE wire_skip_cont(Head(above), Tail(above), i, P, junk, rnd)
               : above \in {SelectSeq(wire_matches(i, P, junk),
                               LAMBDA rr : wire_sort(rr, wire_rr_at(rp, P), i, P, junk, rnd) > 0)} })

\* i after a call of dns_rr_i_shuffle(), if the loops made one
wire_seeded(i, rnd, called) ==
    IF called /\ i.sort = "dns_rr_i_shuffle" /\ i.state.regs0 = 0
    THEN [i EXCEPT !.state.regs0 = rnd] ELSE i

\* case 1 of dns_rr_grep(): out is rr[0..count-1]
RECURSIVE wire_grep_loop(_, _, _, _, _, _)
wire_grep_loop(out, lim, i, P, junk, rnd) ==
    IF Len(out) < lim /\ i.state.next < P.end
    THEN IF wire_rr_parse(i.state.next, P).error # "0"
         THEN [rrs |-> out, i |-> i, error |-> wire_rr_parse(i.state.next, P).error]
         ELSE wire_grep_loop(
                  Append(out, i.state.next), lim,
                  [wire_seeded(i, rnd, wire_matches(i, P, junk) # <<>>) EXCEPT
                      !.state.count = @ + 1,
                      !.state.next = wire_rr_i_skip(i.state.next, i, P, junk, rnd)],
                  P, junk, rnd)
    ELSE [rrs |-> out, i |-> i, error |-> "0"]

\* dns_rr_grep(rr, lim, i, P, &error): the offsets of the records stored in
\* rr[], the iterator afterwards
wire_rr_grep(lim, i, P, junk, rnd) ==
    IF i.state.exec = 0
    THEN The({ wire_grep_loop(<<>>, lim,
                   [wire_seeded(j, rnd, Len(wire_matches(j, P, junk)) > 1) EXCEPT
                       !.state.next = wire_rr_i_start(j, P, junk, rnd),
                       !.state.exec = 1],
                   P, junk, rnd)
               : j \in {[i EXCEPT !.sort = IF @ = "0" THEN "dns_rr_i_packet" ELSE @]} })
    ELSE wire_grep_loop(<<>>, lim, i, P, junk, rnd)
(***************************************************************************)
(* A caller of dns_rr_grep(): it reads the records of one packet one per   *)
(* call (hist.out, hist.done once a call returned 0) and then, with an     *)
(* iterator of its own set up the same way, in one call with room for      *)
(* MaxGrep records (hist.all).                                             *)
(***************************************************************************)
MaxGrep == 8

MaxGrepRecs == 3

GrepSize == 320

\* a TXT record long enough to put the records behind it above offset 255
RecLong == Rec(Dn(<<97>>), DNS_T_TXT, U32(60), [data |-> Zeros(250)])

GrepRecords == {RecA, RecA31, RecNS, RecTXT, RecTXT0, RecOpaque}

\* up to MaxGrepRecs records in the answer section, or one in each of two
\* sections
GrepPushes ==
    { <<>> \o [k \in 1..n |-> <<"AN", rs[k]>>]
      : n \in 0..MaxGrepRecs, rs \in [1..MaxGrepRecs -> GrepRecords] }
    \cup { <<<<"AN", r1>>, <<s2, r2>>>> : r1, r2 \in GrepRecords, s2 \in {"NS", "AR"} }

GrepLong == <<<<"AN", RecLong>>, <<"AN", RecA>>, <<"AN", RecNS>>, <<"AR", RecA31>>>>

GrepPackets ==
    { Build(wire_p_init(ScriptSize), <<<<"QD", RecA>>>> \o ps) : ps \in GrepPushes }
    \cup {Build(wire_p_init(GrepSize), <<<<"QD", RecA>>>> \o GrepLong)}

GrepFilters ==
    { wire_rr_i_new({}, 0, 0, NULL, NULL, "0"),
      wire_rr_i_new({"AN", "AR"}, DNS_T_ALL, DNS_C_ANY, NULL, NULL, "0"),
      wire_rr_i_new({"AN"}, DNS_T_A, DNS_C_IN, NULL, [addr |-> <<1, 120, 64, 0>>], "0"),
      wire_rr_i_new({}, 0, 0, [dn |-> Dn(<<97>>) \o <<46>>], NULL, "0") }

GrepSorts == {"0", "dns_rr_i_order", "dns_rr_i_shuffle"}

Seeds == {1, 77}

JunkSizes == {0, AnySize}

InitG ==
    /\ so = NULL /\ net = NULL /\ R = NULL /\ pc = NULL /\ ret = NULL /\ gh = NULL
    /\ prm = NULL /\ lib = NULL
    /\ pkt \in GrepPackets
    /\ \E f \in GrepFilters, sort \in GrepSorts, rnd \in Seeds, size \in JunkSizes :
          /\ sort # "dns_rr_i_shuffle" => rnd = 1
          /\ sort # "dns_rr_i_order" => size = AnySize
          /\ hist = [i0 |-> [f EXCEPT !.sort = sort], i |-> [f EXCEPT !.sort = sort],
                     out |-> <<>>, done |-> FALSE, all |-> NULL,
                     rnd |-> rnd, junk |-> <<size, size>>]

\* dns_rr_grep(&rr, 1, &i, P, &error)
GrepOne ==
    /\ ~hist.done
    /\ Len(hist.out) < MaxGrep
    /\ \E g \in {wire_rr_grep(1, hist.i, pkt, hist.junk, hist.rnd)} :
          hist' = [hist EXCEPT !.i = g.i, !.out = @ \o g.rrs, !.done = (g.rrs = <<>>)]
    /\ UNCHANGED <<machines, pkt, prm, lib>>

\* dns_rr_grep(rr, lengthof rr, &i, P, &error) with a fresh iterator
GrepAll ==
    /\ hist.all = NULL
    /\ hist.done \/ Len(hist.out) = MaxGrep
    /\ hist' = [hist EXCEPT
                  !.all = [rrs |-> wire_rr_grep(MaxGrep, hist.i0, pkt, hist.junk,
                                                hist.rnd).rrs]]
    /\ UNCHANGED <<machines, pkt, prm, lib>>

NextG == GrepOne \/ GrepAll

SpecG == InitG /\ [][NextG]_vars

\* the offsets of the records of the packet that match the filter
GrepMatching ==
    { rp \in Range(wire_parsed(pkt)) :
         wire_rr_i_match(wire_rr_at(rp, pkt), hist.i0, pkt, hist.junk) }

\* i->sort() of the records at the offsets a and b
GrepCmp(a, b) ==
    wire_sort(wire_rr_at(a, pkt), wire_rr_at(b, pkt), hist.i0, pkt, hist.junk, hist.rnd)

\* out is the matching records without one twice, each the least above the
\* one before it, and all of them once the calls are done
Ascending(out, done) ==
    /\ Len(out) <= Cardinality(GrepMatching)
    /\ \A k \in 1..Len(out) : out[k] \in GrepMatching
    /\ Len(out) > 0 => \A m \in GrepMatching : GrepCmp(out[1], m) <= 0
    /\ \A k \in 1..Len(out) - 1 :
          /\ GrepCmp(out[k + 1], out[k]) > 0
          /\ \A m \in GrepMatching : GrepCmp(m, out[k]) > 0 => GrepCmp(out[k + 1], m) <= 0
    /\ done => Range(out) = GrepMatching /\ Len(out) = Cardinality(GrepMatching)

\* C31: in packet order and in shuffled order dns_rr_i_start() finds the least
\* matching record and dns_rr_i_skip() the least one above the last, so the
\* records come once each in ascending order, the calls end, and one call
\* returns the sequence that calls for one record each return
C31_GrepSorted ==
    hist.i0.sort \in {"0", "dns_rr_i_shuffle"} =>
        /\ Ascending(hist.out, hist.done)
        /\ hist.all # NULL =>
              /\ Len(hist.all.rrs) < MaxGrep
              /\ Ascending(hist.all.rrs, TRUE)
              /\ hist.out = hist.all.rrs

\* a shuffled iteration over four records is done both ways, and is not in
\* the order of the packet
C31_Witness ==
    /\ hist.i0.sort = "dns_rr_i_shuffle"
    /\ hist.done /\ hist.all # NULL
    /\ Len(hist.out) = 4
    /\ \E k \in 1..3 : hist.out[k] > hist.out[k + 1]
    /\ hist.i.state.regs0 = hist.rnd

\* C32: with dns_rr_i_order() the calls end and return every matching record
\* once, whatever the types of the records of a section and whether or not
\* two of them are equal
C32_OrderOnce ==
    hist.i0.sort = "dns_rr_i_order" =>
        /\ Len(hist.out) <= Cardinality(GrepMatching)
        /\ \A j, k \in 1..Len(hist.out) : j < k => hist.out[j] # hist.out[k]
        /\ hist.done => Range(hist.out) = GrepMatching

\* dns_rr_i_order() orders the matching records: of two different records
\* one is below the other, and the order has no cycle of three
OrderTotal ==
    /\ \A a, b \in GrepMatching : a # b => (GrepCmp(a, b) < 0) = (GrepCmp(b, a) > 0)
    /\ \A a, b \in GrepMatching : a # b => GrepCmp(a, b) # 0
    /\ \A a, b, c \in GrepMatching : GrepCmp(a, b) < 0 /\ GrepCmp(b, c) < 0 => GrepCmp(a, c) < 0

\* what holds of dns_rr_i_order(): where it orders the matching records, the
\* calls return them once each in that order
OrderOnceWhereTotal ==
    (hist.i0.sort = "dns_rr_i_order" /\ OrderTotal) => Ascending(hist.out, hist.done)

\* a packet whose answer section holds an A record, an NS record and a lesser
\* A record: the calls go round the three for ever
OrderCycles ==
    /\ hist.i0.sort = "dns_rr_i_order"
    /\ Len(hist.out) = MaxGrep
    /\ \E j, k \in 1..Len(hist.out) : j < k /\ hist.out[j] = hist.out[k]

\* a packet with two TXT records of one owner: the calls are done and one of
\* the two was never returned
OrderLosesTxt ==
    /\ hist.i0.sort = "dns_rr_i_order"
    /\ hist.done
    /\ \E rp \in GrepMatching \ Range(hist.out) : wire_rr_at(rp, pkt).type = DNS_T_TXT

\* a packet with the same A record twice: the second is never returned
OrderLosesTwin ==
    /\ hist.i0.sort = "dns_rr_i_order"
    /\ hist.done
    /\ \E rp \in GrepMatching \ Range(hist.out) : wire_rr_at(rp, pkt).type = DNS_T_A

(***************************************************************************)
(* The loop of search_list(): dns_resconf_search() called again and again  *)
(* with one dns_resconf_i_t, for a query name that is not empty and a      *)
(* search list as resolv.conf leaves it, its entries at the front.         *)
(* hist.out is the list of the names returned, <<>> for a return of 0.     *)
(***************************************************************************)
MaxSearch == 7

SearchNames ==
    {Dn(<<97>>), Dn(<<97>>) \o <<46>>, Dn(<<97, 98>>), Dn(<<97, 98>>) \o <<46>>,
     Dn(<<97, 98, 99>>)}

\* lengthof(resconf->search) entries, the unused ones empty
SearchLists ==
    { <<<<>>, <<>>, <<>>, <<>>>>, <<NameX, <<>>, <<>>, <<>>>>,
      <<NameX, Dn(<<121, 122>>) \o <<46>>, <<>>, <<>>>>,
      <<NameX, Dn(<<121, 122>>) \o <<46>>, Dn(<<122>>) \o <<46>>, NameX>> }

InitS ==
    /\ so = NULL /\ net = NULL /\ R = NULL /\ pc = NULL /\ ret = NULL /\ gh = NULL
    /\ prm = NULL /\ lib = NULL /\ pkt = NULL
    /\ \E qname \in SearchNames, search \in SearchLists, ndots \in 0..3 :
          hist = [qname |-> qname, state |-> search0, out |-> <<>>,
                  resconf |-> [Resconf(LookupBF, 0, 0) EXCEPT !.search = search,
                                                              !.options.ndots = ndots]]

\* dns_resconf_search(name, sizeof name, qname, strlen(qname), resconf, &i)
Search ==
    /\ Len(hist.out) < MaxSearch
    /\ \E c \in {dns_resconf_search(hist.qname, Len(hist.qname), hist.resconf, hist.state)} :
          hist' = [hist EXCEPT !.state = c.state, !.out = Append(@, c.dst)]
    /\ UNCHANGED <<machines, pkt, prm, lib>>

NextS == Search

SpecS == InitS /\ [][NextS]_vars

\* the query name with its final dot
Anchored(qname) == IF qname[Len(qname)] = 46 THEN qname ELSE qname \o <<46>>

\* the names the statement lists for the query name and the configuration
SearchOrder(qname, resconf) ==
    LET d == ndots_of(qname)
        joined == SelectSeq(resconf.search, LAMBDA s : s # <<>>)
    IN  (IF d >= resconf.options.ndots THEN <<Anchored(qname)>> ELSE <<>>)
        \o [k \in 1..Len(joined) |-> Anchored(qname) \o joined[k]]
        \o (IF d < resconf.options.ndots THEN <<Anchored(qname)>> ELSE <<>>)

\* C33: the calls return the anchored query name first if it has ndots dots
\* or more, then the query name joined with each entry of the search list,
\* then the anchored query name if it was not the first, then 0 for ever;
\* the anchored query name is returned once
C33_SearchOrder ==
    hist # NULL =>
       \E names \in {SearchOrder(hist.qname, hist.resconf)} :
          /\ \A k \in 1..Len(hist.out) :
                hist.out[k] = IF k <= Len(names) THEN names[k] ELSE <<>>
          /\ Cardinality({ k \in 1..Len(hist.out) : hist.out[k] = Anchored(hist.qname) }) <= 1
          /\ Len(hist.out) > Len(names) =>
                Cardinality({ k \in 1..Len(hist.out) : hist.out[k] = Anchored(hist.qname) }) = 1

\* "a" with ndots 1 and a search list of two names: the two joined names,
\* then "a.", then 0 twice
C33_Witness ==
    /\ hist # NULL
    /\ hist.out = <<Dn(<<97>>) \o <<46>> \o NameX,
                    Dn(<<97>>) \o <<46>> \o Dn(<<121, 122>>) \o <<46>>,
                    Dn(<<97>>) \o <<46>>, <<>>, <<>>>>

(***************************************************************************)
(* Claims about the smart follow-ups of the resolver.                      *)
(***************************************************************************)
\* two records are equal: dns_rr_cmp() is 0
EqualRecords(a, b) ==
    a.type = b.type /\ a.class = b.class /\ SameText(a.name, b.name) /\ a.rd = b.rd

\* the host a record names for the smart resolver
TargetOf(rr) == IF rr.type = DNS_T_SRV THEN rr.rd.target ELSE rr.rd.host

\* the records of the ANSWER section of the top answer that have the type of
\* the query, in packet order; dns_rr_grep() has returned the first
\* R.smart.state.count of them
SmartRecords ==
    LET idxs == dns_rr_foreach(R.stack[0].answer, {"AN"}, R.qtype, NULL)
    IN  <<>> \o [k \in 1..Len(idxs) |-> rr_at(R.stack[0].answer, idxs[k])]

\* the position in SmartRecords of the next record that names a host, 0 if none
SmartNext ==
    LET left == { k \in (R.smart.state.count + 1)..Len(SmartRecords) :
                     SmartRecords[k].type \in {DNS_T_NS, DNS_T_MX, DNS_T_SRV} }
    IN  IF left = {} THEN 0 ELSE CHOOSE k \in left : \A j \in left : k <= j

\* the step pushes a frame with the query for the addresses of qname
SubQuery(qname) ==
    /\ R'.sp = 1
    /\ R'.stack[0].state = DNS_R_SMART1_A
    /\ R'.stack[1].state = DNS_R_INIT
    /\ \E q \in {Question(R'.stack[1].query)} :
          q.qname = Anchored(qname) /\ q.qtype = DNS_T_A /\ q.qclass = DNS_C_IN

\* FINISH goes on to the follow-ups in frame 0 of a smart resolver only
SmartFinish ==
    ExecStep(DNS_R_FINISH) =>
        /\ R'.sp = R.sp
        /\ R'.stack[R.sp].state = IF R.resconf.options.smart = 1 /\ R.sp = 0
                                  THEN DNS_R_SMART0_A ELSE DNS_R_DONE

\* SMART0_A asks for the addresses of the next record that names a host, or
\* once for those of the query name if the query is for MX and no record was
\* found, or goes to DONE
SmartIssue ==
    ExecStep(DNS_R_SMART0_A) =>
        /\ R.sp = 0 /\ R.resconf.options.smart = 1
        /\ IF SmartNext # 0
           THEN /\ SubQuery(TargetOf(SmartRecords[SmartNext]))
                /\ R'.smart.state.count = SmartNext
           ELSE IF R.qtype = DNS_T_MX /\ SmartRecords = <<>> /\ R.smart.state.count = 0
           THEN /\ SubQuery(R.qname)
                /\ R'.smart.state.count = 1
           ELSE /\ R'.sp = 0
                /\ R'.stack[0].state = DNS_R_DONE
                /\ R'.stack[0].answer = R.stack[0].answer

\* SMART1_A appends the A records of the sub-answer to the ADDITIONAL section
\* of the top answer, but none that has its equal there, and goes back to
\* SMART0_A
SmartCopy ==
    ExecStep(DNS_R_SMART1_A) =>
        LET top == R.stack[0].answer
            new == R'.stack[0].answer
            sub == SelectSeq(SectionRecords(R.stack[1].answer, "AN"),
                             LAMBDA rr : rr.type = DNS_T_A)
            ar0 == SectionRecords(top, "AR")
            ar1 == SectionRecords(new, "AR")
        IN  /\ R.sp = 0 /\ R.resconf.options.smart = 1
            /\ R'.sp = 0 /\ R'.stack[0].state = DNS_R_SMART0_A
            /\ Question(new) = Question(top)
            /\ SectionRecords(new, "AN") = SectionRecords(top, "AN")
            /\ SectionRecords(new, "NS") = SectionRecords(top, "NS")
            /\ Len(ar1) >= Len(ar0) /\ SubSeq(ar1, 1, Len(ar0)) = ar0
            /\ \A k \in 1..Len(sub) : \E j \in 1..Len(ar1) : EqualRecords(sub[k], ar1[j])
            /\ \A k \in (Len(ar0) + 1)..Len(ar1) :
                  /\ ar1[k] \in Range(sub)
                  /\ \A j \in 1..(k - 1) : ~EqualRecords(ar1[j], ar1[k])

SmartFallback ==
    /\ R.resconf.options.smart = 1 /\ R.sp = 0
    /\ R.stack[0].state = DNS_R_DONE
    /\ R.qtype = DNS_T_MX
    /\ R.stack[0].answer # NULL
    /\ dns_p_count(R.stack[0].answer, "AN") = 0
    /\ R.smart.state.count > 0
    /\ \E rr \in Range(SectionRecords(R.stack[0].answer, "AR")) :
          rr.name = Anchored(R.qname) /\ rr.type = DNS_T_A

(***************************************************************************)
(* The TCP receive path on its own: a stream socket, a peer that announces *)
(* a length and sends the message (and possibly more) in segments, and a   *)
(* caller that polls.  hist counts what the kernel has handed over.        *)
(*   hist.segs       segments delivered                                    *)
(*   hist.delivered  bytes delivered to the socket's receive queue         *)
(*   hist.waits      segments delivered after dns_so_check() had returned  *)
(*                   EAGAIN from TCP_RECV                                  *)
(***************************************************************************)
\* length of the long message: more than DNS_SO_MINBUF
BigLen == 770

\* at most this many segments per stream
MaxSegs == 4

\* bytes a peer sends after the announced message
Trailers == {<<>>, <<9>>}

\* the messages of the peer: none, the echoed query, the echoed query
\* followed by bytes up to BigLen
TcpMessages(Q) ==
    LET ok == Variant("ok", Q)
    IN  {<<>>, ok, ok \o [i \in 1..(BigLen - Len(ok)) |-> i % 256]}

InitT ==
    /\ so = dns_so_init("SOCK_STREAM")
    /\ net = net_init(TRUE, 0)
    /\ R = R_none
    /\ pc = pc_init
    /\ ret = ret_init
    /\ gh = gh_init
    /\ pkt = NULL
    /\ prm = NULL
    /\ hist = [segs |-> 0, delivered |-> 0, waits |-> 0]
    /\ lib = NULL

NetTcpT ==
    /\ gh.query # NULL
    /\ net.conn = "up"
    /\ ~net.replied
    /\ \E m \in TcpMessages(gh.query), x \in Trailers :
          /\ net' = [net EXCEPT !.replied = TRUE,
                                !.tcp_pend = <<Len(m) \div 256, Len(m) % 256>> \o m \o x]
          /\ gh' = [gh EXCEPT !.tcp_msg = m]
    \* the bytes of a stream are counted from the start of its connection
    /\ hist' = [hist EXCEPT !.delivered = 0]
    /\ UNCHANGED <<so, R, pc, ret, pkt, prm, lib>>

\* the next k bytes arrive: a few, all but one, or all that is left
NetTcpSegT ==
    /\ net.tcp_pend # <<>>
    /\ hist.segs < MaxSegs
    /\ \E k \in {1, 2, 3, Len(net.tcp_pend) - 1, Len(net.tcp_pend)} :
          /\ k \in 1..Len(net.tcp_pend)
          /\ net' = [net EXCEPT !.tcp_rx = @ \o SubSeq(net.tcp_pend, 1, k),
                                !.tcp_pend = SubSeq(@, k + 1, Len(@))]
          /\ hist' = [hist EXCEPT
                         !.segs = @ + 1,
                         !.delivered = @ + k,
                         !.waits = IF so.state = DNS_SO_TCP_RECV /\ ret.so = "EAGAIN"
                                   THEN @ + 1 ELSE @]
    /\ UNCHANGED <<so, R, pc, ret, gh, pkt, prm, lib>>

NextT ==
    \/ SoSubmit \/ SoCheck
    \/ so_TCP_INIT \/ so_TCP_CONN \/ so_TCP_SEND \/ so_TCP_RECV \/ so_TCP_DONE
    \/ NetTcpT \/ NetTcpSegT \/ NetTcpEof

SpecT == InitT /\ [][NextT]_vars

\* bytes recv() has handed to dns_so_tcp_recv() on this connection so far
TcpRead == hist.delivered - Len(net.tcp_rx)

\* C35: however the stream is split into segments and whenever recv() finds
\* nothing to read, a step of dns_so_check() that leaves TCP_RECV goes to
\* TCP_DONE, has then read the two bytes of the length and as many bytes as
\* they announce and no more, and leaves an answer buffer of max(768,
\* announced length) bytes whose end is the announced length and whose
\* content is the message in order.
C35_TcpRecv ==
    [][SoStep(DNS_SO_TCP_RECV) /\ so'.state # DNS_SO_TCP_RECV =>
          /\ so'.state = DNS_SO_TCP_DONE
          /\ TcpRead' = 2 + Len(gh.tcp_msg)
          /\ so'.apos = 2 + Len(gh.tcp_msg)
          /\ so'.alen = Len(gh.tcp_msg)
          /\ so'.answer.size = Max(DNS_SO_MINBUF, Len(gh.tcp_msg))
          /\ so'.answer.end = Len(gh.tcp_msg)
          /\ SubSeq(so'.answer.data, 1, so'.answer.end) = gh.tcp_msg]_vars

\* the long message has been received in four segments or more, with
\* dns_so_check() returning EAGAIN in between, and a byte is left unread
C35_Witness ==
    /\ so.state = DNS_SO_TCP_DONE
    /\ Len(gh.tcp_msg) = BigLen
    /\ so.answer # NULL
    /\ so.answer.size = BigLen
    /\ so.answer.end = BigLen
    /\ hist.segs >= 4
    /\ hist.waits >= 2
    /\ net.tcp_rx = <<9>>

\* QDCOUNT of the header in the bytes d of a message
QdCount(d) == d[5] * 256 + d[6]

\* a step of UDP_RECV that takes a datagram with a whole header out of the
\* socket buffer
UdpTakes ==
    /\ SoStep(DNS_SO_UDP_RECV)
    /\ net.udp_rx # <<>>
    /\ net'.udp_rx = Tail(net.udp_rx)
    /\ Len(Head(net.udp_rx).data) >= 12

\* a step of TCP_DONE on a received message with a whole header
TcpJudges ==
    /\ SoStep(DNS_SO_TCP_DONE)
    /\ so.answer # NULL
    /\ so.answer.end >= 12

\* C36: a response whose QDCOUNT is not 1 is not accepted: UDP_RECV stays
\* in UDP_RECV after taking it, and TCP_DONE does not return 0 on it.
C36_OneQuestion ==
    [][/\ UdpTakes /\ QdCount(Head(net.udp_rx).data) # 1 =>
             so'.state = DNS_SO_UDP_RECV
       /\ TcpJudges /\ dns_p_count(so.answer, "QD") # 1 => ret'.so # "0"]_vars

\* what the code does: a response with QDCOUNT 0 is not accepted
NoQuestionFails ==
    [][/\ UdpTakes /\ QdCount(Head(net.udp_rx).data) = 0 =>
             so'.state = DNS_SO_UDP_RECV
       /\ TcpJudges /\ dns_p_count(so.answer, "QD") = 0 => ret'.so # "0"]_vars

\* a response with QDCOUNT 2 has been accepted and returned
TwoQuestionsPass ==
    /\ ret.so = "0"
    /\ so.answer # NULL
    /\ dns_p_count(so.answer, "QD") = 2

(***************************************************************************)
(* The hints table on the bytes: the list of zones from H->head on, each   *)
(* [zone, addrs, count] with addrs the slots 0..count-1 written so far,    *)
(* each slot [ss, priority], ss the socket address [af, addr].             *)
(***************************************************************************)
\* lengthof(soa->addrs)
HintsSlots == 16

\* dns_hints_insert(H, zone, sa, priority): the table afterwards (malloc()
\* does not fail)
dns_hints_insert(H, zone, sa, priority) ==
    LET hit == { k \in 1..Len(H) : strcasecmp(zone, H[k].zone) = 0 }
        H1 == IF hit = {} THEN <<[zone |-> zone, addrs |-> <<>>, count |-> 0]>> \o H ELSE H
        j == IF hit = {} THEN 1 ELSE CHOOSE k \in hit : \A l \in hit : k <= l
        soa == H1[j]
        i == soa.count % HintsSlots
        ent == [ss |-> sa, priority |-> Max(1, priority)]
    IN  [H1 EXCEPT ![j] = [soa EXCEPT
            !.addrs = IF i < Len(@) THEN [@ EXCEPT ![i + 1] = ent] ELSE Append(@, ent),
            !.count = IF @ < HintsSlots THEN @ + 1 ELSE @]]

\* the slots a and b of soa: by priority, then by the shuffle of the seed
wire_hints_i_cmp(a, b, seed, soa) ==
    IF soa.addrs[a + 1].priority # soa.addrs[b + 1].priority
    THEN soa.addrs[a + 1].priority - soa.addrs[b + 1].priority
    ELSE dns_k_shuffle8(a, seed) - dns_k_shuffle8(b, seed)

RECURSIVE hints_start_loop(_, _, _, _)
hints_start_loop(p, p0, seed, soa) ==
    IF p < soa.count
    THEN hints_start_loop(p + 1, IF wire_hints_i_cmp(p, p0, seed, soa) < 0 THEN p ELSE p0,
                          seed, soa)
    ELSE p0

wire_hints_i_start(seed, soa) == hints_start_loop(1, 0, seed, soa)

RECURSIVE hints_skip_cont(_, _, _, _, _)
hints_skip_cont(p, pZ, p0, seed, soa) ==
    IF p < soa.count
    THEN hints_skip_cont(p + 1,
                         IF wire_hints_i_cmp(p, p0, seed, soa) <= 0 THEN pZ
                         ELSE IF wire_hints_i_cmp(p, pZ, seed, soa) >= 0 THEN pZ
                         ELSE p,
                         p0, seed, soa)
    ELSE pZ

wire_hints_i_skip(p0, seed, soa) ==
    LET above == { pZ \in 0..soa.count - 1 : wire_hints_i_cmp(pZ, p0, seed, soa) > 0 }
        pZ == CHOOSE p \in above : \A q \in above : p <= q
    IN  IF above = {} THEN soa.count ELSE hints_skip_cont(pZ + 1, pZ, p0, seed, soa)

\* the slots the calls dns_hints_grep(&sa, &slen, 1, &i, hints) yield from
\* i->state.next on, up to the call that returns 0
RECURSIVE hints_grep_from_slot(_, _, _)
hints_grep_from_slot(next, seed, soa) ==
    IF next < soa.count
    THEN <<next>> \o hints_grep_from_slot(wire_hints_i_skip(next, seed, soa), seed, soa)
    ELSE <<>>

\* dns_hints_i_init() and the loop over dns_hints_grep(): the addresses of
\* the zone in the order of the iterator
wire_hints_grep(H, zone, seed) ==
    The({ IF soa = NULL THEN <<>>
          ELSE The({ <<>> \o [k \in 1..Len(slots) |-> soa.addrs[slots[k] + 1].ss]
                     : slots \in {hints_grep_from_slot(wire_hints_i_start(seed, soa),
                                                       seed, soa)} })
          : soa \in {dns_hints_fetch(H, zone)} })

\* the do-while of dns_hints_query(): the zone, then what dns_d_cleave()
\* leaves of it, as long as that is not empty; seeds[l] is the seed
\* dns_random() gives the iterator of the l-th round
RECURSIVE wire_hints_walk(_, _, _)
wire_hints_walk(H, zone, seeds) ==
    wire_hints_grep(H, zone, Head(seeds))
       \o (IF dns_d_cleave(zone) = <<>> THEN <<>>
           ELSE wire_hints_walk(H, dns_d_cleave(zone), Tail(seeds) \o <<Head(seeds)>>))

\* the pushes of the addresses as records of hints.local., up to the first
\* that fails
RECURSIVE hints_push(_, _)
hints_push(P, sas) ==
    IF sas = <<>> THEN [error |-> "0", P |-> P]
    ELSE The({ IF r.error # "0" THEN r ELSE hints_push(r.P, Tail(sas))
               : r \in {wire_p_push(P, "AR", HintsLocal,
                                    IF Head(sas).af = "AF_INET6" THEN DNS_T_AAAA
                                    ELSE DNS_T_A,
                                    DNS_C_IN, U32(0), [addr |-> Head(sas).addr])} })

\* dns_hints_query(hints, Q, &error) on the bytes: P is dns_p_new(512), the
\* answer a copy of P in a buffer of its length; error "indeterminate" is
\* the value of the local variable that no statement has written
wire_hints_query(H, Q, seeds) ==
    The({ IF g.rrs = <<>>
          THEN [P |-> NULL, error |-> IF g.error # "0" THEN g.error ELSE "indeterminate"]
          ELSE The({ IF x.len = 0 THEN [P |-> NULL, error |-> x.error]
                     ELSE IF x.len >= DNS_D_MAXNAME + 1
                     THEN [P |-> NULL, error |-> "DNS_ENOBUFS"]
                     ELSE The({ IF q.error # "0" THEN [P |-> NULL, error |-> q.error]
                        ELSE The({ IF ns.error # "0" THEN [P |-> NULL, error |-> ns.error]
                           ELSE The({ IF r.error # "0" THEN [P |-> NULL, error |-> r.error]
                                      ELSE [P |-> [r.P EXCEPT
                                                     !.size = r.P.end,
                                                     !.data = SubSeq(@, 1, r.P.end)],
                                            error |-> "0"]
                                      : r \in {hints_push(ns.P,
                                                  wire_hints_walk(H, x.dst, seeds))} })
                           : ns \in {wire_p_push(q.P, "NS", <<46>>, DNS_T_NS, DNS_C_IN,
                                                 U32(0), [host |-> HintsLocal])} })
                        : q \in {wire_p_push(set_qr(wire_p_init(512)), "QD", x.dst, rr.type,
                                             rr.class, U32(0), NULL)} })
                     : rr \in {wire_rr_parse(g.rrs[1], Q)},
                       x \in {dns_d_expand(DNS_D_MAXNAME + 1,
                                           wire_rr_parse(g.rrs[1], Q).dn.p, Q)} })
          : g \in {wire_rr_grep(1, wire_rr_i_new({"QD"}, 0, 0, NULL, NULL, "0"), Q,
                                <<0, 0>>, 1)} })

(***************************************************************************)
(* A caller of the hints table: it inserts addresses and asks.  lib.log    *)
(* is the list of the insertions made, lib.inserts the number of those the *)
(* caller made itself, lib.q the question asked and lib.A the answer to it *)
(* until the answer is freed.                                              *)
(***************************************************************************)
\* insertions a caller makes on top of the table it starts with
MaxHintInserts == 2

\* insertions for the root zone made before: as many as there are slots,
\* or one less
ManyHints == 16

\* ".", "a." and "A."
HintZones == {<<46>>, <<97, 46>>, <<65, 46>>}

\* the n-th socket address a caller inserts, of either family
HintAddr(af, n) == [af |-> af, addr |-> IF af = "AF_INET6" THEN Addr6(n) ELSE Addr4(n)]

\* the table and the log after n insertions for the root zone
RECURSIVE hints_many(_)
hints_many(n) ==
    IF n = 0 THEN [hints |-> <<>>, log |-> <<>>]
    ELSE The({ [hints |-> dns_hints_insert(h.hints, <<46>>, HintAddr("AF_INET", n), n % 3),
                log |-> Append(h.log, [zone |-> <<46>>, sa |-> HintAddr("AF_INET", n),
                                       priority |-> n % 3])]
               : h \in {hints_many(n - 1)} })

\* "a.", "b.a.", "c." and "."
HintQNames == {<<97, 46>>, <<98, 46, 97, 46>>, <<99, 46>>, <<46>>}

HintSeeds == {<<1, 77>>, <<77, 1>>}

InitN ==
    /\ so = NULL /\ net = NULL /\ R = NULL /\ pc = NULL /\ ret = NULL /\ gh = NULL
    /\ pkt = NULL /\ prm = NULL /\ hist = NULL
    /\ \E h \in {hints_many(0), hints_many(ManyHints - 1), hints_many(ManyHints)} :
          lib = [hints |-> h.hints, log |-> h.log, inserts |-> 0, q |-> NULL, A |-> NULL,
                 error |-> "0"]

\* error = dns_hints_insert(hints, zone, sa, priority)
NInsert ==
    /\ lib.q = NULL
    /\ lib.inserts < MaxHintInserts
    /\ \E zone \in HintZones, af \in {"AF_INET", "AF_INET6"}, priority \in {0, 2} :
          \E sa \in {HintAddr(af, Len(lib.log) + 1)} :
             lib' = [lib EXCEPT !.hints = dns_hints_insert(@, zone, sa, priority),
                                !.inserts = @ + 1,
                                !.log = Append(@, [zone |-> zone, sa |-> sa,
                                                   priority |-> priority])]
    /\ UNCHANGED <<machines, pkt, prm, hist>>

\* A = dns_hints_query(hints, Q, &error) for a query Q of one question
NQuery ==
    /\ lib.q = NULL
    /\ \E qname \in HintQNames, seeds \in HintSeeds :
          \E Q \in {wire_p_push(wire_p_init(DNS_P_QBUFSIZ), "QD", qname, DNS_T_A, DNS_C_IN,
                                U32(0), NULL).P} :
          \E r \in {wire_hints_query(lib.hints, Q, seeds)} :
             lib' = [lib EXCEPT !.q = [name |-> qname, type |-> DNS_T_A],
                                !.A = r.P, !.error = r.error]
    /\ UNCHANGED <<machines, pkt, prm, hist>>

\* free(A)
NFree ==
    /\ lib.q # NULL
    /\ lib' = [lib EXCEPT !.q = NULL, !.A = NULL, !.error = "0"]
    /\ UNCHANGED <<machines, pkt, prm, hist>>

NextN == NInsert \/ NQuery \/ NFree

SpecN == InitN /\ [][NextN]_vars

\* the records of the section of the answer A, each with its name as text
\* and its data
AnswerSection(A, section) ==
    LET rps == SelectSeq(Walk(A, 12), LAMBDA rp : wire_rr_section(rp, A) = section)
    IN  <<>> \o [k \in 1..Len(rps) |->
           [name |-> dns_d_expand(DNS_D_MAXNAME + 1, rps[k], A).dst,
            type |-> wire_rr_parse(rps[k], A).type,
            class |-> wire_rr_parse(rps[k], A).class,
            any |-> IF section = "QD" THEN NULL
                    ELSE dns_any_parse(wire_rr_parse(rps[k], A), A, AnySize).any]]

\* the names the walk of dns_hints_query() visits, from the name to the root
RECURSIVE ZonesAbove(_)
ZonesAbove(zone) ==
    <<zone>> \o (IF dns_d_cleave(zone) = <<>> THEN <<>> ELSE ZonesAbove(dns_d_cleave(zone)))

\* the zones of the table that enclose the name, the closest first
Enclosing(H, qname) ==
    SelectSeq(ZonesAbove(qname), LAMBDA z : dns_hints_fetch(H, z) # NULL)

\* the addresses stored for the zone, as the records that carry them
StoredFor(H, zone) ==
    { [name |-> HintsLocal,
       type |-> IF e.ss.af = "AF_INET6" THEN DNS_T_AAAA ELSE DNS_T_A,
       class |-> DNS_C_IN, any |-> [addr |-> e.ss.addr]] :
      e \in { dns_hints_fetch(H, zone).addrs[k] : k \in 1..dns_hints_fetch(H, zone).count } }

\* the answer echoes the question and names hints.local. once in AUTHORITY
HintsFrame ==
    /\ AnswerSection(lib.A, "QD") = <<[name |-> lib.q.name, type |-> lib.q.type,
                                   class |-> DNS_C_IN, any |-> NULL]>>
    /\ AnswerSection(lib.A, "AN") = <<>>
    /\ AnswerSection(lib.A, "NS") = <<[name |-> <<46>>, type |-> DNS_T_NS, class |-> DNS_C_IN,
                                   any |-> [host |-> HintsLocal]]>>

\* ADDITIONAL holds one record for each address of the zones zs and no other
Additional(zs) ==
    LET ar == AnswerSection(lib.A, "AR")
        want == UNION { StoredFor(lib.hints, zs[k]) : k \in 1..Len(zs) }
    IN  /\ { ar[k] : k \in 1..Len(ar) } = want
        /\ Len(ar) = Cardinality(want)

\* C37: the answer of dns_hints_query() echoes the question, has one NS
\* record hints.local. in AUTHORITY, and has in ADDITIONAL one A or AAAA
\* record for each address of the closest zone of the table that encloses
\* the name of the question, and for no other zone.
C37_ClosestZone ==
    lib.q # NULL =>
       /\ lib.A # NULL
       /\ HintsFrame
       /\ Additional(SubSeq(Enclosing(lib.hints, lib.q.name), 1,
                            Min(1, Len(Enclosing(lib.hints, lib.q.name)))))

\* what the code does: the addresses of every zone of the table that
\* encloses the name are in ADDITIONAL
AllEnclosingZones ==
    lib.q # NULL =>
       /\ lib.A # NULL
       /\ HintsFrame
       /\ Additional(Enclosing(lib.hints, lib.q.name))

\* a question below two zones of the table has been answered with the
\* addresses of both
TwoZonesAnswered ==
    /\ lib.q # NULL
    /\ lib.A # NULL
    /\ Len(Enclosing(lib.hints, lib.q.name)) = 2
    /\ Len(AnswerSection(lib.A, "AR"))
          > dns_hints_fetch(lib.hints, Enclosing(lib.hints, lib.q.name)[1]).count
    /\ \E k \in 1..Len(AnswerSection(lib.A, "AR")) :
          AnswerSection(lib.A, "AR")[k].type = DNS_T_AAAA

\* the insertions of the log for the zone, the oldest first
InsertionsFor(zone) == SelectSeq(lib.log, LAMBDA e : strcasecmp(zone, e.zone) = 0)

\* the zone of the table keeps no more addresses than it has slots and than
\* were inserted for it, each with a priority of 1 or more
HintsBounded(soa) ==
    /\ soa.count = Min(HintsSlots, Len(InsertionsFor(soa.zone)))
    /\ Len(soa.addrs) = soa.count
    /\ \A k \in 1..soa.count : soa.addrs[k].priority >= 1

\* C38: every zone of the hints table keeps at most 16 addresses, each with
\* a priority of 1 or more, and the n-th insertion for the zone (n from 0)
\* is in slot n mod 16 as long as none of the 16 insertions after it has
\* taken that slot: the slots hold the 16 most recent insertions.
C38_HintsWrap ==
    \A j \in 1..Len(lib.hints) :
       \E soa \in {lib.hints[j]} :
       \E ins \in {InsertionsFor(lib.hints[j].zone)} :
          /\ HintsBounded(soa)
          /\ \A n \in 0..Len(ins) - 1 :
                Len(ins) - n <= HintsSlots =>
                   /\ soa.addrs[(n % HintsSlots) + 1].ss = ins[n + 1].sa
                   /\ soa.addrs[(n % HintsSlots) + 1].priority = Max(1, ins[n + 1].priority)

\* what the code does: the n-th of the first 16 insertions for a zone is in
\* slot n, and for n > 0 it stays there whatever is inserted later
FirstSixteen ==
    \A j \in 1..Len(lib.hints) :
       \E soa \in {lib.hints[j]} :
       \E ins \in {InsertionsFor(lib.hints[j].zone)} :
          /\ HintsBounded(soa)
          /\ \A n \in 0..Min(Len(ins), HintsSlots) - 1 :
                n > 0 \/ Len(ins) <= HintsSlots =>
                   /\ soa.addrs[n + 1].ss = ins[n + 1].sa
                   /\ soa.addrs[n + 1].priority = Max(1, ins[n + 1].priority)

\* what the code does after that: every further insertion is in slot 0
LaterInSlotZero ==
    \A j \in 1..Len(lib.hints) :
       \E soa \in {lib.hints[j]} :
       \E ins \in {InsertionsFor(lib.hints[j].zone)} :
          Len(ins) > HintsSlots =>
             /\ soa.addrs[1].ss = ins[Len(ins)].sa
             /\ soa.addrs[1].priority = Max(1, ins[Len(ins)].priority)

\* eighteen addresses have been inserted for one zone
EighteenInserted ==
    \E j \in 1..Len(lib.hints) : Len(InsertionsFor(lib.hints[j].zone)) = HintsSlots + 2

\* the offsets at which the call e of the log, which returned 0, wrote a
\* name with dns_d_push(): the owner, and the names of the RDATA of NS,
\* CNAME, PTR, MX and SOA records
NamesOf(e) ==
    IF e.op = "dns_d_push" \/ e.section = "QD" THEN {e.at}
    ELSE LET rdp == dns_d_skip(e.at, pkt) + 10
         IN  {e.at} \cup
             (CASE e.rr.type \in {DNS_T_NS, DNS_T_CNAME, DNS_T_PTR} -> {rdp}
                [] e.rr.type = DNS_T_MX -> {rdp + 2}
                [] e.rr.type = DNS_T_SOA -> {rdp, dns_d_skip(rdp, pkt)}
                [] OTHER -> {})

\* the offsets of the names of the calls that returned 0
Committed == UNION { NamesOf(hist.log[k]) : k \in Pushed }

\* every entry of the dictionary in use is the offset of a committed name
\* below the end of the packet
DictSound ==
    \A i \in 1..Len(pkt.dict) :
       pkt.dict[i] # 0 => pkt.dict[i] < pkt.end /\ pkt.dict[i] \in Committed

\* the calls of the log are calls of dns_d_push() and dns_p_push()
Pushing == \A k \in 1..Len(hist.log) : hist.log[k].op \in {"dns_d_push", "dns_p_push"}

\* C39: after any sequence of pushes, failed ones too, the dictionary has at
\* most 16 entries and each entry in use is the offset, below the end of the
\* packet, of a name that a successful push wrote.
C39_DictSound == Pushing => Len(pkt.dict) <= DictSize /\ DictSound

\* what the code does: the dictionary has at most 16 entries, and each entry
\* in use is the offset of a committed name below the end of the packet or
\* lies at or behind the offset at which a dns_p_push() that failed began
SoundButRollback ==
    Pushing =>
       /\ Len(pkt.dict) <= DictSize
       /\ \A i \in 1..Len(pkt.dict) :
             pkt.dict[i] # 0 =>
                \/ pkt.dict[i] < pkt.end /\ pkt.dict[i] \in Committed
                \/ \E k \in 1..Len(hist.log) :
                      /\ hist.log[k].op = "dns_p_push"
                      /\ hist.log[k].error # "0"
                      /\ pkt.dict[i] >= hist.log[k].at

\* a dns_p_push() has just failed and left an entry of the dictionary at the
\* end it restored
EntryAtRestoredEnd ==
    /\ hist.log # <<>>
    /\ hist.log[Len(hist.log)].op = "dns_p_push"
    /\ hist.log[Len(hist.log)].error = "DNS_ENOBUFS"
    /\ pkt.end = hist.log[Len(hist.log)].at
    /\ \E i \in 1..Len(pkt.dict) : pkt.dict[i] # 0 /\ pkt.dict[i] >= pkt.end

(***************************************************************************)
(* The bijection of the permutor on its own: a permutor set up for a range *)
(* and a key, and one evaluation of dns_k_permutor_E() on an input.        *)
(* prm.calls is the number of calls of dns_k_permutor_F() the evaluation   *)
(* made, -1 before it.                                                     *)
(***************************************************************************)
\* the ranges of the permutors: those of SpecK for which the set-up returns,
\* and ranges of 2^10, 2^20 and 2^30 values
ERanges ==
    { rg \in Ranges :
        ~dns_k_permutor_init(rg[1], rg[2], <<u32(0), u32(0), u32(0), u32(0)>>).hang }
       \cup { <<u32(0), <<0, 1023>>>>, <<u32(0), <<15, Half - 1>>>>,
              <<u32(1), <<Half \div 4, 0>>>> }

\* inputs: 0, 1, 5, a number with both halves in use, the largest
EInputs == {u32(0), u32(1), u32(5), <<4660, 22136>>, <<Half - 1, Half - 1>>}

InitE ==
    /\ so = NULL /\ net = NULL /\ R = NULL /\ pc = NULL /\ ret = NULL /\ gh = NULL
    /\ pkt = NULL /\ hist = NULL /\ lib = NULL
    /\ \E rg \in ERanges, key \in Keys, n \in EInputs :
          prm = [p |-> dns_k_permutor_init(rg[1], rg[2], key).p, n |-> n,
                 out |-> NULL, calls |-> -1]

\* out = dns_k_permutor_E(&p, n)
EEval ==
    /\ prm.calls = -1
    /\ \E e \in {E_loop(prm.p, mask_and(prm.p.mask, shr32(prm.n, prm.p.shift)),
                        mask_and(prm.p.mask, prm.n), 0)} :
          prm' = [prm EXCEPT !.out = [n |-> dns_k_permutor_E(prm.p, prm.n)],
                             !.calls = e.i]
    /\ UNCHANGED <<machines, pkt, hist, lib>>

NextE == EEval

SpecE == InitE /\ [][NextE]_vars

\* C40: an evaluation of dns_k_permutor_E() calls the round function
\* dns_k_permutor_F() DNS_K_PERMUTOR_ROUNDS = 8 times, whatever the input
\* and the width of the permutor.
C40_EightRounds == prm.calls # -1 => prm.calls = DNS_K_PERMUTOR_ROUNDS

\* what the code does: one call less than p->rounds
OneRoundLess == prm.calls # -1 => prm.calls = prm.p.rounds - 1

\* an evaluation on a permutor of 2 * 15 bits has been made
WideEvaluated == prm.calls # -1 /\ prm.p.shift = 15 /\ prm.p.rounds = DNS_K_PERMUTOR_ROUNDS

====
